---- MODULE Spec2Model ----
(***************************************************************************)
(* Commission engine and withdrawal engine of the referral backend.        *)
(*                                                                         *)
(* The database is four collections (users, requests, withdraws,           *)
(* upgrades) and the append-only transactions ledger.  Every HTTP handler  *)
(* is a process whose steps are the handler's awaits.  Handlers that open  *)
(* a mongoose session run as MongoDB multi-document transactions: reads    *)
(* come from the snapshot taken at the first operation, writes are         *)
(* buffered and become visible at commit, and a write to a document that   *)
(* another transaction holds, or that was written after the snapshot,      *)
(* throws WriteConflict.  Handlers without a session read and write the    *)
(* committed database directly, one await at a time.                       *)
(***************************************************************************)
EXTENDS Integers, Sequences, FiniteSets, TLC

VARIABLES users, requests, withdraws, upgrades, transactions, nextId, procs, calls,
          now, stats, jobMeta, jobs, inflight

vars == <<users, requests, withdraws, upgrades, transactions, nextId, procs, calls,
          now, stats, jobMeta, jobs, inflight>>

\* The state of the leaderboard jobs: the clock, the stat collections, the
\* JobMeta record, the running jobs and the ledger entries of an open transaction.
aggregation == <<now, stats, jobMeta, jobs, inflight>>

\* The state of the request handlers other than the ledger.
engine == <<users, requests, withdraws, upgrades, nextId, procs, calls>>

(* ---------------------------------------------------------------- bounds *)

\* Total number of handler calls in one behaviour.
MaxCalls == 3
\* Number of documents ever created in one collection of requests.
MaxDocs == 2
\* Total number of upgrade handler calls in one behaviour.
MaxUpgradeCalls == 4
\* Total number of withdrawal handler calls in one behaviour.
MaxWithdrawalCalls == 4

\* Leaderboard jobs started, ledger entries created and clock instants elapsed.
MaxRuns == 2

MaxEntries == 1

MaxTicks == 1
MaxBoard == 12

\* Two HTTP handlers may be in flight at the same time.
Procs == {"p1", "p2"}
DocIds == 1..MaxDocs

(* ------------------------------------------------------------- constants *)

Null == "null"

UserIds == {"G", "S", "A", "U", "V", "W"}

Plans == {"knowic", "learnic", "masteric"}

\* PLAN_PRICING[plan].direct
knowicDirect == 16
learnicDirect == 40
mastericDirect == 85
\* PLAN_PRICING[plan].passive
knowicPassive == 2
learnicPassive == 4
mastericPassive == 7

PLAN_PRICING ==
    [knowic   |-> [direct |-> knowicDirect,   passive |-> knowicPassive],
     learnic  |-> [direct |-> learnicDirect,  passive |-> learnicPassive],
     masteric |-> [direct |-> mastericDirect, passive |-> mastericPassive]]

\* A hierarchy in which every plan may refer every plan.
PLAN_HIERARCHY_Flat == [pl \in Plans |-> Plans]

PLAN_HIERARCHY ==
    [knowic   |-> {"knowic"},
     learnic  |-> {"knowic", "learnic"},
     masteric |-> {"knowic", "learnic", "masteric"}]

\* planHierarchy of createUpgradeRequest
planRank == [knowic |-> 1, learnic |-> 2, masteric |-> 3]

\* createWithdrawal: amount < 30 is refused
MinWithdrawal == 30

\* Amounts a caller may ask to withdraw.
Amounts == {25, 30, 35}

(* --------------------------------------------------------------- helpers *)

Tx(u, t, a) == [user_id |-> u, type |-> t, amount |-> a]

RECURSIVE SumSeq(_, _, _)
\* Sum of the amounts of the ledger entries of account u whose type is in ts.
SumSeq(s, u, ts) ==
    IF s = <<>> THEN 0
    ELSE (IF Head(s).user_id = u /\ Head(s).type \in ts THEN Head(s).amount ELSE 0)
         + SumSeq(Tail(s), u, ts)

RECURSIVE CountSeq(_, _, _)
\* Number of ledger entries of account u whose type is in ts.
CountSeq(s, u, ts) ==
    IF s = <<>> THEN 0
    ELSE (IF Head(s).user_id = u /\ Head(s).type \in ts THEN 1 ELSE 0)
         + CountSeq(Tail(s), u, ts)

\* Model.findById returns null: the collection holds no document id.
Missing(coll, id) == id \notin DOMAIN coll

\* Model.findById on a collection that holds the document id.
FindById(coll, id) == coll[id]

\* A collection with document d stored under id.
Put(coll, id, d) == [i \in DOMAIN coll \cup {id} |-> IF i = id THEN d ELSE coll[i]]

\* A collection without the document id (findByIdAndDelete).
Remove(coll, id) == [i \in DOMAIN coll \ {id} |-> coll[i]]

\* The status of document id of a collection, "absent" when there is none.
StatusOf(coll, id) == IF id \in DOMAIN coll THEN coll[id].status ELSE "absent"

\* A status check that lets every document through.
ProcessedNever(doc) == FALSE

\* lines 212, 323 (and withdrawController 169, 257): the document is not pending.
Processed(doc) == doc.status # "pending"

UserKey(u) == <<"user", u>>
RequestKey(i) == <<"request", i>>
WithdrawKey(i) == <<"withdraw", i>>
UpgradeKey(i) == <<"upgrade", i>>

(* ------------------------------------------------------------- processes *)

NoSnap == [users |-> <<>>, requests |-> <<>>, withdraws |-> <<>>]

\* A handler that is not running: no call yet.  op, id and out are the call and
\* its response; pre (the status of the target document when the call arrived),
\* fault (a storage operation of the call threw) and wrote (the call changed the
\* committed database) record the history of the call.
IdleProc ==
    [op |-> "none", pc |-> "idle", id |-> 0, pre |-> "none", out |-> "none", fault |-> FALSE,
     txn |-> FALSE, snap |-> NoSnap, locks |-> {}, ins |-> <<>>, stale |-> {},
     wrote |-> FALSE, l |-> <<>>]

\* A handler may begin a new call when it is not in the middle of one.
CanStart(p) == procs[p].pc \in {"idle", "done"} /\ calls < MaxCalls

\* The same for the handlers of the upgrade routes.
CanStartUpgrade(p) == procs[p].pc \in {"idle", "done"} /\ calls < MaxUpgradeCalls

\* The same for the handlers of the withdrawal routes.
CanStartWithdrawal(p) == procs[p].pc \in {"idle", "done"} /\ calls < MaxWithdrawalCalls

\* The handler has sent its response.
Finished(p, o) == [procs[p] EXCEPT !.pc = "done", !.out = o, !.txn = FALSE,
                                   !.snap = NoSnap, !.locks = {}, !.ins = <<>>, !.stale = {}, !.l = <<>>]

\* session.startTransaction(): the snapshot is taken at the first operation.
Begin(p, o, i) ==
    [IdleProc EXCEPT !.op = o, !.id = i, !.txn = TRUE, !.pre = "pending",
                     !.snap = [users |-> users, requests |-> requests, withdraws |-> withdraws]]

\* Documents written by a transaction other than p that has not yet ended.
LockedByOther(p) == UNION {procs[q].locks : q \in Procs \ {p}}

\* Transactions without isolation: no write ever conflicts.
WriteConflictNever(p, k) == FALSE

\* A write inside p's transaction to document k throws WriteConflict.
WriteConflict(p, k) == k \in procs[p].stale \/ k \in LockedByOther(p)

\* Every open transaction other than p learns that the documents ks changed.
MarkStale(ps, p, ks) ==
    [q \in Procs |-> IF q # p /\ ps[q].txn THEN [ps[q] EXCEPT !.stale = @ \cup ks] ELSE ps[q]]

\* Every open transaction learns that a write outside a transaction changed ks;
\* the writer's own record becomes np.
Written(p, np, ks) == MarkStale([procs EXCEPT ![p] = np], p, ks)

\* A write outside a transaction waits while an open transaction holds k.
Writable(p, k) == k \notin LockedByOther(p)

\* The transaction of p as it stands after writing document k.
Locked(pr, k) == [pr EXCEPT !.locks = @ \cup {k}]

\* catch: session.abortTransaction(), 500.  Nothing of the transaction is kept.
Abort(p) == Finished(p, "Internal")

(* ------------------------------------------------------------------ Init *)

User(bal, dir, pas, ref, st, pl) ==
    [balance |-> bal, direct_income |-> dir, passive_income |-> pas,
     referral_of |-> ref, status |-> st, plan |-> pl]

\* The accounts after signup and the first activations: G (no upline) sponsors
\* S, S sponsors A; U signed up under S, W under G and V without a referral
\* code, all three still pending.  G has been paid for S and for referrals
\* outside this set.
InitUsers ==
    [G |-> User(2 * mastericDirect + 4 * mastericPassive + knowicPassive,
                2 * mastericDirect,
                4 * mastericPassive + knowicPassive, Null, "active", "masteric"),
     S |-> User(knowicDirect, knowicDirect, 0, "G", "active", "masteric"),
     A |-> User(0, 0, 0, "S", "active", "knowic"),
     U |-> User(0, 0, 0, "S", "pending", Null),
     V |-> User(0, 0, 0, Null, "pending", Null),
     W |-> User(0, 0, 0, "G", "pending", Null)]

\* The ledger entries behind InitUsers.
InitTransactions ==
    <<Tx("G", "direct", mastericDirect), Tx("G", "passive", mastericPassive),
      Tx("G", "passive", mastericPassive), Tx("G", "passive", mastericPassive),
      Tx("G", "passive", mastericPassive), Tx("G", "direct", mastericDirect),
      Tx("S", "direct", knowicDirect), Tx("G", "passive", knowicPassive)>>

\* A has asked to upgrade to learnic with the referral code of S; S has not
\* answered yet.
InitUpgrades ==
    <<[user_id |-> "A", previous_plan |-> "knowic", new_plan |-> "learnic",
       new_referrer_id |-> "S", proof_image |-> Null, status |-> "created"]>>

\* The two schedulers that can start a leaderboard job: the cron timer and the
\* startup timeout (leaderboardJob.js lines 282-312).
JobIds == {"cron", "startup"}

\* A scheduler that has started nothing yet.
IdleJob == [op |-> "none", pc |-> "idle", out |-> "none", l |-> <<>>]

\* The three stat collections, empty.
NoStats == [daily |-> <<>>, weekly |-> <<>>, monthly |-> <<>>]

\* No leaderboard job has run: the collections of the jobs are empty.
StatsIdle ==
    /\ now = 0
    /\ stats = NoStats
    /\ jobMeta = <<>>
    /\ jobs = [j \in JobIds |-> IdleJob]
    /\ inflight = <<>>

Init ==
    /\ users = InitUsers
    /\ requests = <<>>
    /\ withdraws = <<>>
    /\ upgrades = InitUpgrades
    /\ transactions = InitTransactions
    /\ nextId = [requests |-> 1, withdraws |-> 1, upgrades |-> 2]
    /\ procs = [p \in Procs |-> IdleProc]
    /\ calls = 0
    /\ StatsIdle

(* ------------------------------------------------ createRequest (no txn) *)

\* A first step of createRequest that accepts every caller.
CreateRequestUserAnyCaller(p, sender_id, user_id, plan) ==
    /\ CanStart(p)
    /\ calls' = calls + 1
    /\ LET user == FindById(users, user_id)
           me == [IdleProc EXCEPT !.op = "createRequest",
                                  !.l = [user_id |-> user_id, sender_id |-> sender_id, plan |-> plan]]
           no == [me EXCEPT !.l = <<>>]
       IN procs' = [procs EXCEPT ![p] =
            IF Missing(users, user_id) THEN [no EXCEPT !.pc = "done", !.out = "NotFound"]
            ELSE IF user.status # "pending" THEN [no EXCEPT !.pc = "done", !.out = "InvalidState"]
            ELSE IF user.referral_of # Null THEN [me EXCEPT !.pc = "cr_sender"]
            ELSE [me EXCEPT !.pc = "cr_existing"]]
    /\ UNCHANGED <<aggregation, users, requests, withdraws, upgrades, transactions, nextId>>

\* lines 25-62, 82-89: the subject is looked up and the caller is checked.
CreateRequestUser(p, sender_id, user_id, plan) ==
    /\ CanStart(p)
    /\ calls' = calls + 1
    /\ LET user == FindById(users, user_id)
           me == [IdleProc EXCEPT !.op = "createRequest",
                                  !.l = [user_id |-> user_id, sender_id |-> sender_id, plan |-> plan]]
           no == [me EXCEPT !.l = <<>>]
       IN procs' = [procs EXCEPT ![p] =
            IF Missing(users, user_id) THEN [no EXCEPT !.pc = "done", !.out = "NotFound"]
            ELSE IF user.status # "pending" THEN [no EXCEPT !.pc = "done", !.out = "InvalidState"]
            ELSE IF user.referral_of # Null
                 THEN IF user.referral_of # sender_id
                      THEN [no EXCEPT !.pc = "done", !.out = "Forbidden"]
                      ELSE [me EXCEPT !.pc = "cr_sender"]
                 ELSE IF user_id # sender_id
                      THEN [no EXCEPT !.pc = "done", !.out = "Forbidden"]
                      ELSE [me EXCEPT !.pc = "cr_existing"]]
    /\ UNCHANGED <<aggregation, users, requests, withdraws, upgrades, transactions, nextId>>

\* lines 64-79: the plan hierarchy is checked against the sender's current plan.
CreateRequestSender(p) ==
    /\ procs[p].pc = "cr_sender"
    /\ LET sender == FindById(users, procs[p].l.sender_id)
       IN procs' = [procs EXCEPT ![p] =
            IF Missing(users, procs[p].l.sender_id) THEN Finished(p, "Internal")
            ELSE IF sender.plan = Null THEN Finished(p, "InvalidState")
            ELSE IF procs[p].l.plan \notin PLAN_HIERARCHY[sender.plan]
                 THEN Finished(p, "PlanNotAllowed")
            ELSE [procs[p] EXCEPT !.pc = "cr_existing"]]
    /\ UNCHANGED <<aggregation, users, requests, withdraws, upgrades, transactions, nextId, calls>>

\* lines 91-102: Request.findOne({user_id, status: "pending"}).
CreateRequestExisting(p) ==
    /\ procs[p].pc = "cr_existing"
    /\ procs' = [procs EXCEPT ![p] =
            IF \E i \in DOMAIN requests :
                   requests[i].user_id = procs[p].l.user_id /\ requests[i].status = "pending"
            THEN Finished(p, "Conflict")
            ELSE [procs[p] EXCEPT !.pc = "cr_create"]]
    /\ UNCHANGED <<aggregation, users, requests, withdraws, upgrades, transactions, nextId, calls>>

\* lines 104-120: Request.create, status defaults to pending.
CreateRequestCreate(p) ==
    /\ procs[p].pc = "cr_create"
    /\ nextId.requests \in DocIds
    /\ requests' = Put(requests, nextId.requests,
                       [user_id |-> procs[p].l.user_id, sender_id |-> procs[p].l.sender_id,
                        plan |-> procs[p].l.plan, status |-> "pending"])
    /\ nextId' = [nextId EXCEPT !.requests = @ + 1]
    /\ procs' = [procs EXCEPT ![p] = [Finished(p, "OK") EXCEPT !.wrote = TRUE]]
    /\ UNCHANGED <<aggregation, users, withdraws, upgrades, transactions, calls>>

createRequest(p) ==
    \/ \E sender_id \in UserIds, user_id \in UserIds, plan \in Plans :
           CreateRequestUser(p, sender_id, user_id, plan)
    \/ CreateRequestSender(p)
    \/ CreateRequestExisting(p)
    \/ CreateRequestCreate(p)

(* ------------------------------------------------- rejectRequest (no txn) *)

\* lines 312-328: the request is looked up and must be pending.
RejectRequestFind(p, id) ==
    /\ CanStart(p)
    /\ calls' = calls + 1
    /\ LET request == FindById(requests, id)
           me == [IdleProc EXCEPT !.op = "rejectRequest", !.id = id, !.pre = StatusOf(requests, id)]
       IN procs' = [procs EXCEPT ![p] =
            IF Missing(requests, id) THEN [me EXCEPT !.pc = "done", !.out = "NotFound"]
            ELSE IF Processed(request) THEN [me EXCEPT !.pc = "done", !.out = "InvalidState"]
            ELSE [me EXCEPT !.pc = "rr_delete"]]
    /\ UNCHANGED <<aggregation, users, requests, withdraws, upgrades, transactions, nextId>>

\* A rejection that keeps the record and marks it rejected.
RejectRequestMark(p) ==
    /\ procs[p].pc = "rr_delete"
    /\ Writable(p, RequestKey(procs[p].id))
    /\ requests' = IF procs[p].id \in DOMAIN requests
                   THEN [requests EXCEPT ![procs[p].id].status = "rejected"] ELSE requests
    /\ procs' = Written(p, [Finished(p, "OK") EXCEPT !.wrote = (procs[p].id \in DOMAIN requests)],
                        {RequestKey(procs[p].id)})
    /\ UNCHANGED <<aggregation, users, withdraws, upgrades, transactions, nextId, calls>>

\* lines 330-336: Request.findByIdAndDelete(id).
RejectRequestDelete(p) ==
    /\ procs[p].pc = "rr_delete"
    /\ Writable(p, RequestKey(procs[p].id))
    /\ requests' = IF procs[p].id \in DOMAIN requests THEN Remove(requests, procs[p].id) ELSE requests
    /\ procs' = Written(p, [Finished(p, "OK") EXCEPT !.wrote = (procs[p].id \in DOMAIN requests)],
                        {RequestKey(procs[p].id)})
    /\ UNCHANGED <<aggregation, users, withdraws, upgrades, transactions, nextId, calls>>

rejectRequest(p) ==
    \/ \E id \in DocIds : RejectRequestFind(p, id)
    \/ RejectRequestDelete(p)

(* ---------------------------------------------------- approveRequest (txn) *)

\* The document of account u as the transaction of pr sees it.
TxnUser(pr, u) == FindById(pr.snap.users, u)

\* User.findById(u).session(session) returns null.
TxnNoUser(pr, u) == Missing(pr.snap.users, u)

\* The transaction of pr after user.save({session}) of document d for account u.
SaveUser(pr, u, d) == Locked([pr EXCEPT !.snap.users[u] = d], UserKey(u))

\* lines 241-242: the direct commission is added to direct_income and balance.
CreditDirect(doc, pricing) ==
    [doc EXCEPT !.direct_income = @ + pricing.direct, !.balance = @ + pricing.direct]

\* A passive credit that leaves the balance alone.
CreditPassiveIncomeOnly(doc, pricing) == [doc EXCEPT !.passive_income = @ + pricing.passive]

\* lines 263-264: the passive commission is added to passive_income and balance.
CreditPassive(doc, pricing) ==
    [doc EXCEPT !.passive_income = @ + pricing.passive, !.balance = @ + pricing.passive]

\* A commission condition that holds for every subject.
HasReferrerAlways(user, user_id) == TRUE

\* The condition of lines 235-238 on the subject's document.
HasReferrer(user, user_id) == user.referral_of # Null /\ user.referral_of # user_id

\* lines 195-219: the transaction starts; the request must exist and be pending.
ApproveRequestFind(p, id) ==
    /\ CanStart(p)
    /\ calls' = calls + 1
    /\ LET request == FindById(requests, id)
           me == Begin(p, "approveRequest", id)
           no == [IdleProc EXCEPT !.op = "approveRequest", !.id = id, !.pc = "done",
                                  !.pre = StatusOf(requests, id)]
       IN procs' = [procs EXCEPT ![p] =
            IF Missing(requests, id) THEN [no EXCEPT !.out = "NotFound"]
            ELSE IF Processed(request) THEN [no EXCEPT !.out = "InvalidState"]
            ELSE [me EXCEPT !.pc = "ar_saveRequest"]]
    /\ UNCHANGED <<aggregation, users, requests, withdraws, upgrades, transactions, nextId>>

\* lines 221-223: request.status = "approved"; request.save({session}).
ApproveRequestSaveRequest(p) ==
    /\ procs[p].pc = "ar_saveRequest"
    /\ procs' = [procs EXCEPT ![p] =
            IF WriteConflict(p, RequestKey(procs[p].id)) THEN Abort(p)
            ELSE Locked([procs[p] EXCEPT !.snap.requests[procs[p].id].status = "approved",
                                         !.pc = "ar_saveUser"],
                        RequestKey(procs[p].id))]
    /\ UNCHANGED <<aggregation, users, requests, withdraws, upgrades, transactions, nextId, calls>>

\* lines 225-229: the subject becomes active with the requested plan.
ApproveRequestSaveUser(p) ==
    /\ procs[p].pc = "ar_saveUser"
    /\ LET request == procs[p].snap.requests[procs[p].id]
           user == TxnUser(procs[p], request.user_id)
       IN procs' = [procs EXCEPT ![p] =
            IF TxnNoUser(procs[p], request.user_id) \/ WriteConflict(p, UserKey(request.user_id)) THEN Abort(p)
            ELSE [SaveUser(procs[p], request.user_id,
                           [user EXCEPT !.status = "active", !.plan = request.plan])
                  EXCEPT !.pc = "ar_saveSender"]]
    /\ UNCHANGED <<aggregation, users, requests, withdraws, upgrades, transactions, nextId, calls>>

\* lines 231-243: the sender is credited the direct commission when the subject
\* has a referrer other than itself.
ApproveRequestSaveSender(p) ==
    /\ procs[p].pc = "ar_saveSender"
    /\ LET request == procs[p].snap.requests[procs[p].id]
           user == TxnUser(procs[p], request.user_id)
           pricing == PLAN_PRICING[request.plan]
           sender == TxnUser(procs[p], request.sender_id)
       IN procs' = [procs EXCEPT ![p] =
            IF ~HasReferrer(user, request.user_id) THEN [procs[p] EXCEPT !.pc = "ar_commit"]
            ELSE IF TxnNoUser(procs[p], request.sender_id) \/ WriteConflict(p, UserKey(request.sender_id)) THEN Abort(p)
            ELSE [SaveUser(procs[p], request.sender_id, CreditDirect(sender, pricing))
                  EXCEPT !.pc = "ar_direct"]]
    /\ UNCHANGED <<aggregation, users, requests, withdraws, upgrades, transactions, nextId, calls>>

\* lines 245-255: the direct ledger entry of the sender.
ApproveRequestDirect(p) ==
    /\ procs[p].pc = "ar_direct"
    /\ LET request == procs[p].snap.requests[procs[p].id]
       IN procs' = [procs EXCEPT ![p] =
            [procs[p] EXCEPT !.ins = Append(@, Tx(request.sender_id, "direct",
                                                  PLAN_PRICING[request.plan].direct)),
                             !.pc = "ar_grand"]]
    /\ UNCHANGED <<aggregation, users, requests, withdraws, upgrades, transactions, nextId, calls>>

\* lines 257-265: the sender's referrer, when there is one, is credited the
\* passive commission.
ApproveRequestGrand(p) ==
    /\ procs[p].pc = "ar_grand"
    /\ LET request == procs[p].snap.requests[procs[p].id]
           pricing == PLAN_PRICING[request.plan]
           sender == TxnUser(procs[p], request.sender_id)
           grandReferrer == TxnUser(procs[p], sender.referral_of)
       IN procs' = [procs EXCEPT ![p] =
            IF sender.referral_of = Null \/ TxnNoUser(procs[p], sender.referral_of)
            THEN [procs[p] EXCEPT !.pc = "ar_commit"]
            ELSE IF WriteConflict(p, UserKey(sender.referral_of)) THEN Abort(p)
            ELSE [SaveUser(procs[p], sender.referral_of, CreditPassive(grandReferrer, pricing))
                  EXCEPT !.pc = "ar_passive"]]
    /\ UNCHANGED <<aggregation, users, requests, withdraws, upgrades, transactions, nextId, calls>>

\* A passive ledger entry written for the subject of the request.
ApproveRequestPassiveToSubject(p) ==
    /\ procs[p].pc = "ar_passive"
    /\ LET request == procs[p].snap.requests[procs[p].id]
       IN procs' = [procs EXCEPT ![p] =
            [procs[p] EXCEPT !.ins = Append(@, Tx(request.user_id, "passive",
                                                  PLAN_PRICING[request.plan].passive)),
                             !.pc = "ar_commit"]]
    /\ UNCHANGED <<aggregation, users, requests, withdraws, upgrades, transactions, nextId, calls>>

\* lines 267-277: the passive ledger entry of the sender's referrer.
ApproveRequestPassive(p) ==
    /\ procs[p].pc = "ar_passive"
    /\ LET request == procs[p].snap.requests[procs[p].id]
           sender == TxnUser(procs[p], request.sender_id)
       IN procs' = [procs EXCEPT ![p] =
            [procs[p] EXCEPT !.ins = Append(@, Tx(sender.referral_of, "passive",
                                                  PLAN_PRICING[request.plan].passive)),
                             !.pc = "ar_commit"]]
    /\ UNCHANGED <<aggregation, users, requests, withdraws, upgrades, transactions, nextId, calls>>

\* A commit that loses the buffered writes to the users collection.
CommitUsersLost(pr) == users

\* The committed users collection after the transaction of pr commits.
CommitUsers(pr) ==
    [u \in DOMAIN users |-> IF UserKey(u) \in pr.locks THEN pr.snap.users[u] ELSE users[u]]

\* The committed requests collection after the transaction of pr commits.
CommitRequests(pr) ==
    [i \in DOMAIN requests |-> IF RequestKey(i) \in pr.locks THEN pr.snap.requests[i] ELSE requests[i]]

\* The committed withdraws collection after the transaction of pr commits.
CommitWithdraws(pr) ==
    [i \in DOMAIN withdraws |-> IF WithdrawKey(i) \in pr.locks THEN pr.snap.withdraws[i] ELSE withdraws[i]]

\* lines 282-284: session.commitTransaction(): every write becomes visible at once.
ApproveRequestCommit(p) ==
    /\ procs[p].pc = "ar_commit"
    /\ users' = CommitUsers(procs[p])
    /\ requests' = CommitRequests(procs[p])
    /\ transactions' = transactions \o procs[p].ins
    /\ procs' = MarkStale([procs EXCEPT ![p] =
                             [procs[p] EXCEPT !.pc = "ar_respond", !.txn = FALSE, !.snap = NoSnap,
                                              !.locks = {}, !.ins = <<>>, !.stale = {},
                                              !.wrote = TRUE]],
                          p, procs[p].locks)
    /\ UNCHANGED <<aggregation, withdraws, upgrades, nextId, calls>>

\* lines 286-294: the approved request is read again and sent back.
ApproveRequestRespond(p) ==
    /\ procs[p].pc = "ar_respond"
    /\ procs' = [procs EXCEPT ![p] = Finished(p, "OK")]
    /\ UNCHANGED <<aggregation, users, requests, withdraws, upgrades, transactions, nextId, calls>>

\* lines 295-303: a storage operation of the handler throws.  Before the commit
\* the catch block aborts the transaction; at the read of line 286 the
\* transaction is already committed and the handler still ends as a failure.
ApproveRequestFault(p) ==
    /\ procs[p].pc \in {"ar_saveRequest", "ar_saveUser", "ar_saveSender", "ar_direct",
                        "ar_grand", "ar_passive", "ar_commit", "ar_respond"}
    /\ procs' = [procs EXCEPT ![p] = [Finished(p, "Internal") EXCEPT !.fault = TRUE]]
    /\ UNCHANGED <<aggregation, users, requests, withdraws, upgrades, transactions, nextId, calls>>

approveRequest(p) ==
    \/ \E id \in DocIds : ApproveRequestFind(p, id)
    \/ ApproveRequestSaveRequest(p)
    \/ ApproveRequestSaveUser(p)
    \/ ApproveRequestSaveSender(p)
    \/ ApproveRequestDirect(p)
    \/ ApproveRequestGrand(p)
    \/ ApproveRequestPassive(p)
    \/ ApproveRequestCommit(p)
    \/ ApproveRequestRespond(p)
    \/ ApproveRequestFault(p)

(* --------------------------------------------- createWithdrawal (no txn) *)

\* A first step of createWithdrawal that does not compare the amount with
\* passive_income.
CreateWithdrawalUserUnchecked(p, userId, amount) ==
    /\ CanStartWithdrawal(p)
    /\ calls' = calls + 1
    /\ LET me == [IdleProc EXCEPT !.op = "createWithdrawal"]
       IN procs' = [procs EXCEPT ![p] =
            IF amount < MinWithdrawal THEN [me EXCEPT !.pc = "done", !.out = "InvalidInput"]
            ELSE IF Missing(users, userId) THEN [me EXCEPT !.pc = "done", !.out = "NotFound"]
            ELSE [me EXCEPT !.pc = "cw_existing", !.l = [userId |-> userId, amount |-> amount]]]
    /\ UNCHANGED <<aggregation, users, requests, withdraws, upgrades, transactions, nextId>>

\* lines 11-45: the amount is validated and checked against passive_income.
CreateWithdrawalUser(p, userId, amount) ==
    /\ CanStartWithdrawal(p)
    /\ calls' = calls + 1
    /\ LET user == FindById(users, userId)
           me == [IdleProc EXCEPT !.op = "createWithdrawal"]
       IN procs' = [procs EXCEPT ![p] =
            IF amount < MinWithdrawal THEN [me EXCEPT !.pc = "done", !.out = "InvalidInput"]
            ELSE IF Missing(users, userId) THEN [me EXCEPT !.pc = "done", !.out = "NotFound"]
            ELSE IF user.passive_income < amount
                 THEN [me EXCEPT !.pc = "done", !.out = "InsufficientFunds"]
            ELSE [me EXCEPT !.pc = "cw_existing", !.l = [userId |-> userId, amount |-> amount]]]
    /\ UNCHANGED <<aggregation, users, requests, withdraws, upgrades, transactions, nextId>>

\* lines 47-58: Withdraw.findOne({user_id, status: 'pending'}).
CreateWithdrawalExisting(p) ==
    /\ procs[p].pc = "cw_existing"
    /\ procs' = [procs EXCEPT ![p] =
            IF \E i \in DOMAIN withdraws :
                   withdraws[i].user_id = procs[p].l.userId /\ withdraws[i].status = "pending"
            THEN Finished(p, "Conflict")
            ELSE [procs[p] EXCEPT !.pc = "cw_create"]]
    /\ UNCHANGED <<aggregation, users, requests, withdraws, upgrades, transactions, nextId, calls>>

\* lines 60-73: Withdraw.create with status pending.
CreateWithdrawalCreate(p) ==
    /\ procs[p].pc = "cw_create"
    /\ nextId.withdraws \in DocIds
    /\ withdraws' = Put(withdraws, nextId.withdraws,
                        [user_id |-> procs[p].l.userId, amount |-> procs[p].l.amount,
                         status |-> "pending"])
    /\ nextId' = [nextId EXCEPT !.withdraws = @ + 1]
    /\ procs' = [procs EXCEPT ![p] = [Finished(p, "OK") EXCEPT !.wrote = TRUE]]
    /\ UNCHANGED <<aggregation, users, requests, upgrades, transactions, calls>>

createWithdrawal(p) ==
    \/ \E userId \in UserIds, amount \in Amounts : CreateWithdrawalUser(p, userId, amount)
    \/ CreateWithdrawalExisting(p)
    \/ CreateWithdrawalCreate(p)

(* ------------------------------------------------ approveWithdrawal (txn) *)

\* A first step of approveWithdrawal that does not look at the funds.
ApproveWithdrawalFindNoFunds(p, id) ==
    /\ CanStartWithdrawal(p)
    /\ calls' = calls + 1
    /\ LET withdrawal == FindById(withdraws, id)
           me == Begin(p, "approveWithdrawal", id)
           no == [IdleProc EXCEPT !.op = "approveWithdrawal", !.id = id, !.pc = "done",
                                  !.pre = StatusOf(withdraws, id)]
       IN procs' = [procs EXCEPT ![p] =
            IF Missing(withdraws, id) THEN [no EXCEPT !.out = "NotFound"]
            ELSE IF Processed(withdrawal) THEN [no EXCEPT !.out = "InvalidState"]
            ELSE IF Missing(users, withdrawal.user_id) THEN [no EXCEPT !.out = "NotFound"]
            ELSE [me EXCEPT !.pc = "aw_saveWithdrawal"]]
    /\ UNCHANGED <<aggregation, users, requests, withdraws, upgrades, transactions, nextId>>

\* lines 151-197: the transaction starts; the withdrawal must exist and be
\* pending, its user must exist and hold at least the amount as passive_income.
ApproveWithdrawalFind(p, id) ==
    /\ CanStartWithdrawal(p)
    /\ calls' = calls + 1
    /\ LET withdrawal == FindById(withdraws, id)
           user == FindById(users, withdrawal.user_id)
           me == Begin(p, "approveWithdrawal", id)
           no == [IdleProc EXCEPT !.op = "approveWithdrawal", !.id = id, !.pc = "done",
                                  !.pre = StatusOf(withdraws, id)]
       IN procs' = [procs EXCEPT ![p] =
            IF Missing(withdraws, id) THEN [no EXCEPT !.out = "NotFound"]
            ELSE IF Processed(withdrawal) THEN [no EXCEPT !.out = "InvalidState"]
            ELSE IF Missing(users, withdrawal.user_id) THEN [no EXCEPT !.out = "NotFound"]
            ELSE IF user.passive_income < withdrawal.amount
                 THEN [no EXCEPT !.out = "InsufficientFunds"]
            ELSE [me EXCEPT !.pc = "aw_saveWithdrawal"]]
    /\ UNCHANGED <<aggregation, users, requests, withdraws, upgrades, transactions, nextId>>

\* lines 199-201: withdrawal.status = 'approved'; withdrawal.save({session}).
ApproveWithdrawalSaveWithdrawal(p) ==
    /\ procs[p].pc = "aw_saveWithdrawal"
    /\ procs' = [procs EXCEPT ![p] =
            IF WriteConflict(p, WithdrawKey(procs[p].id)) THEN Abort(p)
            ELSE Locked([procs[p] EXCEPT !.snap.withdraws[procs[p].id].status = "approved",
                                         !.pc = "aw_saveUser"],
                        WithdrawKey(procs[p].id))]
    /\ UNCHANGED <<aggregation, users, requests, withdraws, upgrades, transactions, nextId, calls>>

\* A debit that takes the amount twice.
DebitTwice(user, amount) == [user EXCEPT !.passive_income = @ - 2 * amount]

\* The user document after the debit of lines 203-204.
Debit(user, amount) == [user EXCEPT !.passive_income = @ - amount]

\* lines 203-205: user.passive_income -= withdrawal.amount; user.save({session}).
ApproveWithdrawalSaveUser(p) ==
    /\ procs[p].pc = "aw_saveUser"
    /\ LET withdrawal == procs[p].snap.withdraws[procs[p].id]
           user == TxnUser(procs[p], withdrawal.user_id)
       IN procs' = [procs EXCEPT ![p] =
            IF WriteConflict(p, UserKey(withdrawal.user_id)) THEN Abort(p)
            ELSE [SaveUser(procs[p], withdrawal.user_id, Debit(user, withdrawal.amount))
                  EXCEPT !.pc = "aw_create"]]
    /\ UNCHANGED <<aggregation, users, requests, withdraws, upgrades, transactions, nextId, calls>>

\* lines 207-217: the withdrawal ledger entry.
ApproveWithdrawalCreate(p) ==
    /\ procs[p].pc = "aw_create"
    /\ LET withdrawal == procs[p].snap.withdraws[procs[p].id]
       IN procs' = [procs EXCEPT ![p] =
            [procs[p] EXCEPT !.ins = Append(@, Tx(withdrawal.user_id, "withdrawal",
                                                  withdrawal.amount)),
                             !.pc = "aw_commit"]]
    /\ UNCHANGED <<aggregation, users, requests, withdraws, upgrades, transactions, nextId, calls>>

\* lines 219-227: session.commitTransaction() and the response.
ApproveWithdrawalCommit(p) ==
    /\ procs[p].pc = "aw_commit"
    /\ users' = CommitUsers(procs[p])
    /\ withdraws' = CommitWithdraws(procs[p])
    /\ transactions' = transactions \o procs[p].ins
    /\ procs' = MarkStale([procs EXCEPT ![p] = [Finished(p, "OK") EXCEPT !.wrote = TRUE]],
                          p, procs[p].locks)
    /\ UNCHANGED <<aggregation, requests, upgrades, nextId, calls>>

\* lines 228-237: a storage operation of the handler throws; the catch block
\* aborts the transaction.
ApproveWithdrawalFault(p) ==
    /\ procs[p].pc \in {"aw_saveWithdrawal", "aw_saveUser", "aw_create", "aw_commit"}
    /\ procs' = [procs EXCEPT ![p] = [Finished(p, "Internal") EXCEPT !.fault = TRUE]]
    /\ UNCHANGED <<aggregation, users, requests, withdraws, upgrades, transactions, nextId, calls>>

approveWithdrawal(p) ==
    \/ \E id \in DocIds : ApproveWithdrawalFind(p, id)
    \/ ApproveWithdrawalSaveWithdrawal(p)
    \/ ApproveWithdrawalSaveUser(p)
    \/ ApproveWithdrawalCreate(p)
    \/ ApproveWithdrawalCommit(p)
    \/ ApproveWithdrawalFault(p)

(* ---------------------------------------------- rejectWithdrawal (no txn) *)

\* lines 245-262: the withdrawal is looked up and must be pending.
RejectWithdrawalFind(p, id) ==
    /\ CanStartWithdrawal(p)
    /\ calls' = calls + 1
    /\ LET withdrawal == FindById(withdraws, id)
           me == [IdleProc EXCEPT !.op = "rejectWithdrawal", !.id = id,
                                  !.pre = StatusOf(withdraws, id)]
       IN procs' = [procs EXCEPT ![p] =
            IF Missing(withdraws, id) THEN [me EXCEPT !.pc = "done", !.out = "NotFound"]
            ELSE IF Processed(withdrawal)
                 THEN [me EXCEPT !.pc = "done", !.out = "InvalidState"]
            ELSE [me EXCEPT !.pc = "rw_save"]]
    /\ UNCHANGED <<aggregation, users, requests, withdraws, upgrades, transactions, nextId>>

\* lines 264-272: withdrawal.status = 'rejected'; withdrawal.save().
RejectWithdrawalSave(p) ==
    /\ procs[p].pc = "rw_save"
    /\ Writable(p, WithdrawKey(procs[p].id))
    /\ withdraws' = [withdraws EXCEPT ![procs[p].id].status = "rejected"]
    /\ procs' = Written(p, [Finished(p, "OK") EXCEPT !.wrote = TRUE], {WithdrawKey(procs[p].id)})
    /\ UNCHANGED <<aggregation, users, requests, upgrades, transactions, nextId, calls>>

rejectWithdrawal(p) ==
    \/ \E id \in DocIds : RejectWithdrawalFind(p, id)
    \/ RejectWithdrawalSave(p)

(* ----------------------------------------- createUpgradeRequest (no txn) *)

\* lines 14-42: the caller must hold a plan lower than the requested one.
CreateUpgradeRequestUser(p, userId, new_plan, referrer) ==
    /\ CanStartUpgrade(p)
    /\ calls' = calls + 1
    /\ LET user == FindById(users, userId)
           me == [IdleProc EXCEPT !.op = "createUpgradeRequest"]
       IN procs' = [procs EXCEPT ![p] =
            IF Missing(users, userId) THEN [me EXCEPT !.pc = "done", !.out = "NotFound"]
            ELSE IF user.plan = Null THEN [me EXCEPT !.pc = "done", !.out = "InvalidState"]
            ELSE IF user.plan = new_plan THEN [me EXCEPT !.pc = "done", !.out = "InvalidState"]
            ELSE IF planRank[new_plan] <= planRank[user.plan]
                 THEN [me EXCEPT !.pc = "done", !.out = "InvalidState"]
            ELSE [me EXCEPT !.pc = "cu_referrer",
                            !.l = [userId |-> userId, new_plan |-> new_plan,
                                   referrer |-> referrer, previous_plan |-> user.plan]]]
    /\ UNCHANGED <<aggregation, users, requests, withdraws, upgrades, transactions, nextId>>

\* lines 44-68: the owner of the referral code must hold a plan that may refer
\* the requested plan.
CreateUpgradeRequestReferrer(p) ==
    /\ procs[p].pc = "cu_referrer"
    /\ LET referrer == FindById(users, procs[p].l.referrer)
       IN procs' = [procs EXCEPT ![p] =
            IF Missing(users, procs[p].l.referrer) THEN Finished(p, "InvalidInput")
            ELSE IF referrer.plan = Null THEN Finished(p, "InvalidState")
            ELSE IF procs[p].l.new_plan \notin PLAN_HIERARCHY[referrer.plan]
                 THEN Finished(p, "PlanNotAllowed")
            ELSE [procs[p] EXCEPT !.pc = "cu_existing"]]
    /\ UNCHANGED <<aggregation, users, requests, withdraws, upgrades, transactions, nextId, calls>>

\* lines 70-78: UpgradeRequest.findOne({user_id, status in created, user_approved}).
CreateUpgradeRequestExisting(p) ==
    /\ procs[p].pc = "cu_existing"
    /\ procs' = [procs EXCEPT ![p] =
            IF \E i \in DOMAIN upgrades :
                   /\ upgrades[i].user_id = procs[p].l.userId
                   /\ upgrades[i].status \in {"created", "user_approved"}
            THEN Finished(p, "Conflict")
            ELSE [procs[p] EXCEPT !.pc = "cu_save"]]
    /\ UNCHANGED <<aggregation, users, requests, withdraws, upgrades, transactions, nextId, calls>>

\* lines 80-95: the upgrade request is stored in status created.
CreateUpgradeRequestSave(p) ==
    /\ procs[p].pc = "cu_save"
    /\ nextId.upgrades \in DocIds
    /\ upgrades' = Put(upgrades, nextId.upgrades,
                       [user_id |-> procs[p].l.userId, previous_plan |-> procs[p].l.previous_plan,
                        new_plan |-> procs[p].l.new_plan,
                        new_referrer_id |-> procs[p].l.referrer, proof_image |-> Null,
                        status |-> "created"])
    /\ nextId' = [nextId EXCEPT !.upgrades = @ + 1]
    /\ procs' = [procs EXCEPT ![p] = [Finished(p, "OK") EXCEPT !.wrote = TRUE]]
    /\ UNCHANGED <<aggregation, users, requests, withdraws, transactions, calls>>

createUpgradeRequest(p) ==
    \/ \E userId \in UserIds, new_plan \in Plans, referrer \in UserIds :
           CreateUpgradeRequestUser(p, userId, new_plan, referrer)
    \/ CreateUpgradeRequestReferrer(p)
    \/ CreateUpgradeRequestExisting(p)
    \/ CreateUpgradeRequestSave(p)

(* --------------------------------------- referrerApproveRequest (no txn) *)

\* The paths of upgradeRequestSchema: save() stores no other property.
UpgradeSchemaPaths ==
    {"user_id", "previous_plan", "new_plan", "new_referrer_id", "proof_image", "status"}

\* The stored form of an upgrade request document.
Strict(doc) == [f \in DOMAIN doc \cap UpgradeSchemaPaths |-> doc[f]]

\* lines 141-163: only the new referrer may approve, only a created request and
\* only with an uploaded proof.
ReferrerApproveRequestFind(p, id, userId, file, discounted) ==
    /\ CanStartUpgrade(p)
    /\ calls' = calls + 1
    /\ LET upgradeRequest == FindById(upgrades, id)
           me == [IdleProc EXCEPT !.op = "referrerApproveRequest", !.id = id,
                                  !.pre = StatusOf(upgrades, id)]
       IN procs' = [procs EXCEPT ![p] =
            IF Missing(upgrades, id) THEN [me EXCEPT !.pc = "done", !.out = "NotFound"]
            ELSE IF upgradeRequest.new_referrer_id # userId
                 THEN [me EXCEPT !.pc = "done", !.out = "Forbidden"]
            ELSE IF upgradeRequest.status # "created"
                 THEN [me EXCEPT !.pc = "done", !.out = "InvalidState"]
            ELSE IF ~file THEN [me EXCEPT !.pc = "done", !.out = "InvalidInput"]
            ELSE [me EXCEPT !.pc = "ra_save", !.l = [discounted |-> discounted]]]
    /\ UNCHANGED <<aggregation, users, requests, withdraws, upgrades, transactions, nextId>>

\* lines 165-184: proof_image, status = 'user_approved' and the discount
\* properties are set and the document is saved; the response carries the
\* document as the handler holds it.
ReferrerApproveRequestSave(p) ==
    /\ procs[p].pc = "ra_save"
    /\ IF Missing(upgrades, procs[p].id)
       THEN /\ procs' = [procs EXCEPT ![p] = Finished(p, "Internal")]
            /\ UNCHANGED upgrades
       ELSE LET doc == [f \in DOMAIN upgrades[procs[p].id] \cup
                              (IF procs[p].l.discounted THEN {"discounted"} ELSE {}) |->
                          IF f = "status" THEN "user_approved"
                          ELSE IF f = "proof_image" THEN "proof"
                          ELSE IF f = "discounted" THEN TRUE
                          ELSE upgrades[procs[p].id][f]]
            IN /\ upgrades' = [upgrades EXCEPT ![procs[p].id] = Strict(doc)]
               /\ procs' = [procs EXCEPT ![p] = [Finished(p, "OK") EXCEPT !.wrote = TRUE,
                                                                          !.l = procs[p].l]]
    /\ UNCHANGED <<aggregation, users, requests, withdraws, transactions, nextId, calls>>

referrerApproveRequest(p) ==
    \/ \E id \in DocIds, userId \in UserIds, file \in BOOLEAN, discounted \in BOOLEAN :
           ReferrerApproveRequestFind(p, id, userId, file, discounted)
    \/ ReferrerApproveRequestSave(p)

(* ---------------------------------------- approveUpgradeRequest (no txn) *)

\* lines 244-253: the upgrade request must exist and be user_approved.
ApproveUpgradeRequestFind(p, id) ==
    /\ CanStartUpgrade(p)
    /\ calls' = calls + 1
    /\ LET upgradeRequest == FindById(upgrades, id)
           me == [IdleProc EXCEPT !.op = "approveUpgradeRequest", !.id = id,
                                  !.pre = StatusOf(upgrades, id)]
       IN procs' = [procs EXCEPT ![p] =
            IF Missing(upgrades, id) THEN [me EXCEPT !.pc = "done", !.out = "NotFound"]
            ELSE IF upgradeRequest.status # "user_approved"
                 THEN [me EXCEPT !.pc = "done", !.out = "InvalidState"]
            ELSE [me EXCEPT !.pc = "au_user", !.l = [upgradeRequest |-> upgradeRequest]]]
    /\ UNCHANGED <<aggregation, users, requests, withdraws, upgrades, transactions, nextId>>

\* lines 255-259: User.findById(upgradeRequest.user_id).
ApproveUpgradeRequestUser(p) ==
    /\ procs[p].pc = "au_user"
    /\ procs' = [procs EXCEPT ![p] =
            IF Missing(users, procs[p].l.upgradeRequest.user_id) THEN Finished(p, "NotFound")
            ELSE [procs[p] EXCEPT !.pc = "au_newReferrer"]]
    /\ UNCHANGED <<aggregation, users, requests, withdraws, upgrades, transactions, nextId, calls>>

\* lines 261-268: User.findById(upgradeRequest.new_referrer_id).
ApproveUpgradeRequestNewReferrer(p) ==
    /\ procs[p].pc = "au_newReferrer"
    /\ LET rid == procs[p].l.upgradeRequest.new_referrer_id
       IN procs' = [procs EXCEPT ![p] =
            IF Missing(users, rid) THEN Finished(p, "NotFound")
            ELSE [procs[p] EXCEPT !.pc = "au_saveUser",
                                  !.l = [upgradeRequest |-> procs[p].l.upgradeRequest,
                                         newReferrer |-> FindById(users, rid)]]]
    /\ UNCHANGED <<aggregation, users, requests, withdraws, upgrades, transactions, nextId, calls>>

\* lines 270-273: the subject's plan and referral_of are saved.
ApproveUpgradeRequestSaveUser(p) ==
    /\ procs[p].pc = "au_saveUser"
    /\ LET req == procs[p].l.upgradeRequest
       IN IF Missing(users, req.user_id)
          THEN /\ procs' = [procs EXCEPT ![p] = Finished(p, "Internal")]
               /\ UNCHANGED users
          ELSE /\ Writable(p, UserKey(req.user_id))
               /\ users' = [users EXCEPT ![req.user_id].plan = req.new_plan,
                                         ![req.user_id].referral_of = req.new_referrer_id]
               /\ procs' = Written(p, [procs[p] EXCEPT !.pc = "au_saveReferrer", !.wrote = TRUE],
                                   {UserKey(req.user_id)})
    /\ UNCHANGED <<aggregation, requests, withdraws, upgrades, transactions, nextId, calls>>

\* lines 275-278: the new referrer's direct_income and balance, computed from the
\* document read at line 262, are saved.
ApproveUpgradeRequestSaveReferrer(p) ==
    /\ procs[p].pc = "au_saveReferrer"
    /\ LET req == procs[p].l.upgradeRequest
           rid == req.new_referrer_id
           newReferrer == procs[p].l.newReferrer
           pricing == PLAN_PRICING[req.new_plan]
       IN IF Missing(users, rid)
          THEN /\ procs' = [procs EXCEPT ![p] = Finished(p, "Internal")]
               /\ UNCHANGED users
          ELSE /\ Writable(p, UserKey(rid))
               /\ users' = [users EXCEPT ![rid].direct_income = newReferrer.direct_income + pricing.direct,
                                         ![rid].balance = newReferrer.balance + pricing.direct]
               /\ procs' = Written(p, [procs[p] EXCEPT !.pc = "au_direct"], {UserKey(rid)})
    /\ UNCHANGED <<aggregation, requests, withdraws, upgrades, transactions, nextId, calls>>

\* lines 280-285: the direct ledger entry of the new referrer.
ApproveUpgradeRequestDirect(p) ==
    /\ procs[p].pc = "au_direct"
    /\ LET req == procs[p].l.upgradeRequest
       IN transactions' = Append(transactions, Tx(req.new_referrer_id, "direct",
                                                  PLAN_PRICING[req.new_plan].direct))
    /\ procs' = [procs EXCEPT ![p] = [procs[p] EXCEPT !.pc = "au_grand"]]
    /\ UNCHANGED <<aggregation, users, requests, withdraws, upgrades, nextId, calls>>

\* line 291: upgradeRequest.discounted === true, on the document as it was read.
IsUpgradeDiscounted(upgradeRequest) ==
    "discounted" \in DOMAIN upgradeRequest /\ upgradeRequest["discounted"] = TRUE

\* lines 287-293: the new referrer's referrer is looked up; it is paid when it
\* exists and the upgrade is not discounted.
ApproveUpgradeRequestGrand(p) ==
    /\ procs[p].pc = "au_grand"
    /\ LET newReferrer == procs[p].l.newReferrer
           gid == newReferrer.referral_of
       IN procs' = [procs EXCEPT ![p] =
            IF gid = Null \/ Missing(users, gid) \/ IsUpgradeDiscounted(procs[p].l.upgradeRequest)
            THEN [procs[p] EXCEPT !.pc = "au_saveRequest"]
            ELSE [procs[p] EXCEPT !.pc = "au_saveGrand",
                                  !.l = [upgradeRequest |-> procs[p].l.upgradeRequest,
                                         newReferrer |-> newReferrer,
                                         grandReferrer |-> FindById(users, gid)]]]
    /\ UNCHANGED <<aggregation, users, requests, withdraws, upgrades, transactions, nextId, calls>>

\* lines 294-296: the grand referrer's passive_income and balance are saved.
ApproveUpgradeRequestSaveGrand(p) ==
    /\ procs[p].pc = "au_saveGrand"
    /\ LET gid == procs[p].l.newReferrer.referral_of
           grandReferrer == procs[p].l.grandReferrer
           pricing == PLAN_PRICING[procs[p].l.upgradeRequest.new_plan]
       IN IF Missing(users, gid)
          THEN /\ procs' = [procs EXCEPT ![p] = Finished(p, "Internal")]
               /\ UNCHANGED users
          ELSE /\ Writable(p, UserKey(gid))
               /\ users' = [users EXCEPT ![gid].passive_income = grandReferrer.passive_income + pricing.passive,
                                         ![gid].balance = grandReferrer.balance + pricing.passive]
               /\ procs' = Written(p, [procs[p] EXCEPT !.pc = "au_passive"], {UserKey(gid)})
    /\ UNCHANGED <<aggregation, requests, withdraws, upgrades, transactions, nextId, calls>>

\* lines 298-303: the passive ledger entry of the grand referrer.
ApproveUpgradeRequestPassive(p) ==
    /\ procs[p].pc = "au_passive"
    /\ transactions' = Append(transactions,
                              Tx(procs[p].l.newReferrer.referral_of, "passive",
                                 PLAN_PRICING[procs[p].l.upgradeRequest.new_plan].passive))
    /\ procs' = [procs EXCEPT ![p] = [procs[p] EXCEPT !.pc = "au_saveRequest"]]
    /\ UNCHANGED <<aggregation, users, requests, withdraws, upgrades, nextId, calls>>

\* lines 307-314: upgradeRequest.status = 'approved' is saved last.
ApproveUpgradeRequestSaveRequest(p) ==
    /\ procs[p].pc = "au_saveRequest"
    /\ IF Missing(upgrades, procs[p].id)
       THEN /\ procs' = [procs EXCEPT ![p] = Finished(p, "Internal")]
            /\ UNCHANGED upgrades
       ELSE /\ upgrades' = [upgrades EXCEPT ![procs[p].id].status = "approved"]
            /\ procs' = [procs EXCEPT ![p] = Finished(p, "OK")]
    /\ UNCHANGED <<aggregation, users, requests, withdraws, transactions, nextId, calls>>

\* lines 315-318: a storage operation of the handler throws; the catch block
\* answers 500 and what was already saved stays saved.
ApproveUpgradeRequestFault(p) ==
    /\ procs[p].pc \in {"au_user", "au_newReferrer", "au_saveUser", "au_saveReferrer", "au_direct",
                        "au_grand", "au_saveGrand", "au_passive", "au_saveRequest"}
    /\ procs' = [procs EXCEPT ![p] = [Finished(p, "Internal") EXCEPT !.fault = TRUE]]
    /\ UNCHANGED <<aggregation, users, requests, withdraws, upgrades, transactions, nextId, calls>>

approveUpgradeRequest(p) ==
    \/ \E id \in DocIds : ApproveUpgradeRequestFind(p, id)
    \/ ApproveUpgradeRequestUser(p)
    \/ ApproveUpgradeRequestNewReferrer(p)
    \/ ApproveUpgradeRequestSaveUser(p)
    \/ ApproveUpgradeRequestSaveReferrer(p)
    \/ ApproveUpgradeRequestDirect(p)
    \/ ApproveUpgradeRequestGrand(p)
    \/ ApproveUpgradeRequestSaveGrand(p)
    \/ ApproveUpgradeRequestPassive(p)
    \/ ApproveUpgradeRequestSaveRequest(p)
    \/ ApproveUpgradeRequestFault(p)

(* ---------------------------------------- referrerRejectRequest (no txn) *)

\* lines 194-211: only the new referrer may reject, and only a created request.
ReferrerRejectRequestFind(p, id, userId) ==
    /\ CanStartUpgrade(p)
    /\ calls' = calls + 1
    /\ LET upgradeRequest == FindById(upgrades, id)
           me == [IdleProc EXCEPT !.op = "referrerRejectRequest", !.id = id,
                                  !.pre = StatusOf(upgrades, id)]
       IN procs' = [procs EXCEPT ![p] =
            IF Missing(upgrades, id) THEN [me EXCEPT !.pc = "done", !.out = "NotFound"]
            ELSE IF upgradeRequest.new_referrer_id # userId
                 THEN [me EXCEPT !.pc = "done", !.out = "Forbidden"]
            ELSE IF upgradeRequest.status # "created"
                 THEN [me EXCEPT !.pc = "done", !.out = "InvalidState"]
            ELSE [me EXCEPT !.pc = "rr_delete"]]
    /\ UNCHANGED <<aggregation, users, requests, withdraws, upgrades, transactions, nextId>>

\* lines 213-218: UpgradeRequest.findByIdAndDelete(id).
ReferrerRejectRequestDelete(p) ==
    /\ procs[p].pc = "rr_delete"
    /\ upgrades' = IF Missing(upgrades, procs[p].id) THEN upgrades ELSE Remove(upgrades, procs[p].id)
    /\ procs' = [procs EXCEPT ![p] = [Finished(p, "OK") EXCEPT !.wrote = TRUE]]
    /\ UNCHANGED <<aggregation, users, requests, withdraws, transactions, nextId, calls>>

referrerRejectRequest(p) ==
    \/ \E id \in DocIds, userId \in UserIds : ReferrerRejectRequestFind(p, id, userId)
    \/ ReferrerRejectRequestDelete(p)

(* ----------------------------------------- rejectUpgradeRequest (no txn) *)

\* lines 324-333: the upgrade request must exist and be user_approved.
RejectUpgradeRequestFind(p, id) ==
    /\ CanStartUpgrade(p)
    /\ calls' = calls + 1
    /\ LET upgradeRequest == FindById(upgrades, id)
           me == [IdleProc EXCEPT !.op = "rejectUpgradeRequest", !.id = id,
                                  !.pre = StatusOf(upgrades, id)]
       IN procs' = [procs EXCEPT ![p] =
            IF Missing(upgrades, id) THEN [me EXCEPT !.pc = "done", !.out = "NotFound"]
            ELSE IF upgradeRequest.status # "user_approved"
                 THEN [me EXCEPT !.pc = "done", !.out = "InvalidState"]
            ELSE [me EXCEPT !.pc = "ru_delete"]]
    /\ UNCHANGED <<aggregation, users, requests, withdraws, upgrades, transactions, nextId>>

\* lines 335-340: UpgradeRequest.findByIdAndDelete(id).
RejectUpgradeRequestDelete(p) ==
    /\ procs[p].pc = "ru_delete"
    /\ upgrades' = IF Missing(upgrades, procs[p].id) THEN upgrades ELSE Remove(upgrades, procs[p].id)
    /\ procs' = [procs EXCEPT ![p] = [Finished(p, "OK") EXCEPT !.wrote = TRUE]]
    /\ UNCHANGED <<aggregation, users, requests, withdraws, transactions, nextId, calls>>

rejectUpgradeRequest(p) ==
    \/ \E id \in DocIds : RejectUpgradeRequestFind(p, id)
    \/ RejectUpgradeRequestDelete(p)

(* ------------------------------------------------------ deleteUser (txn) *)

\* withdrawController.js lines 634-649: the account is looked up outside the
\* transaction.  No modelled account has the admin role.
DeleteUserFind(p, id) ==
    /\ CanStart(p)
    /\ calls' = calls + 1
    /\ LET me == [IdleProc EXCEPT !.op = "deleteUser"]
       IN procs' = [procs EXCEPT ![p] =
            IF Missing(users, id) THEN [me EXCEPT !.pc = "done", !.out = "NotFound"]
            ELSE [me EXCEPT !.pc = "du_referees", !.l = [user |-> id]]]
    /\ UNCHANGED <<aggregation, users, requests, withdraws, upgrades, transactions, nextId>>

\* The accounts of a users collection whose referral_of is a.
Referees(coll, a) == {u \in DOMAIN coll : coll[u].referral_of = a}

\* lines 652-661: the transaction starts; updateMany sets referral_of to null on
\* every account that names the deleted one.
DeleteUserReferees(p) ==
    /\ procs[p].pc = "du_referees"
    /\ LET a == procs[p].l.user
           rs == Referees(users, a)
           me == [procs[p] EXCEPT !.txn = TRUE,
                                  !.snap = [users |-> [u \in DOMAIN users |->
                                                         IF u \in rs
                                                         THEN [users[u] EXCEPT !.referral_of = Null]
                                                         ELSE users[u]],
                                            requests |-> requests, withdraws |-> withdraws],
                                  !.locks = {UserKey(u) : u \in rs},
                                  !.pc = "du_requests"]
       IN procs' = [procs EXCEPT ![p] =
            IF \E u \in rs : WriteConflict(p, UserKey(u)) THEN Abort(p) ELSE me]
    /\ UNCHANGED <<aggregation, users, requests, withdraws, upgrades, transactions, nextId, calls>>

\* The requests of a collection whose subject is a.
RequestsOf(coll, a) == {i \in DOMAIN coll : coll[i].user_id = a}

\* line 664: Request.deleteMany({user_id}) inside the transaction.
DeleteUserRequests(p) ==
    /\ procs[p].pc = "du_requests"
    /\ LET rs == RequestsOf(procs[p].snap.requests, procs[p].l.user)
       IN procs' = [procs EXCEPT ![p] =
            IF \E i \in rs : WriteConflict(p, RequestKey(i)) THEN Abort(p)
            ELSE [procs[p] EXCEPT !.locks = @ \cup {RequestKey(i) : i \in rs},
                                  !.snap.requests = [i \in DOMAIN @ \ rs |-> @[i]],
                                  !.pc = "du_transactions"]]
    /\ UNCHANGED <<aggregation, users, requests, withdraws, upgrades, transactions, nextId, calls>>

\* line 667: Transaction.deleteMany({user_id}) inside the transaction; the
\* entries leave the ledger at the commit.
DeleteUserTransactions(p) ==
    /\ procs[p].pc = "du_transactions"
    /\ procs' = [procs EXCEPT ![p] = [procs[p] EXCEPT !.pc = "du_delete"]]
    /\ UNCHANGED <<aggregation, users, requests, withdraws, upgrades, transactions, nextId, calls>>

\* line 670: User.findByIdAndDelete(id) inside the transaction.
DeleteUserDelete(p) ==
    /\ procs[p].pc = "du_delete"
    /\ LET a == procs[p].l.user
       IN procs' = [procs EXCEPT ![p] =
            IF TxnNoUser(procs[p], a) THEN [procs[p] EXCEPT !.pc = "du_commit"]
            ELSE IF WriteConflict(p, UserKey(a)) THEN Abort(p)
            ELSE Locked([procs[p] EXCEPT !.snap.users = [u \in DOMAIN @ \ {a} |-> @[u]],
                                         !.pc = "du_commit"],
                        UserKey(a))]
    /\ UNCHANGED <<aggregation, users, requests, withdraws, upgrades, transactions, nextId, calls>>

\* The ledger without the entries of account a.
WithoutEntriesOf(led, a) == SelectSeq(led, LAMBDA e : e.user_id # a)

\* lines 673-679: session.commitTransaction() and the response.
DeleteUserCommit(p) ==
    /\ procs[p].pc = "du_commit"
    /\ LET pr == procs[p]
           a == pr.l.user
       IN /\ users' = [u \in DOMAIN users \cap DOMAIN pr.snap.users |->
                          IF UserKey(u) \in pr.locks THEN pr.snap.users[u] ELSE users[u]]
          /\ requests' = [i \in {j \in DOMAIN requests : RequestKey(j) \notin pr.locks} |->
                             requests[i]]
          /\ transactions' = WithoutEntriesOf(transactions, a)
          /\ procs' = MarkStale([procs EXCEPT ![p] =
                                   [Finished(p, "OK") EXCEPT !.wrote = TRUE, !.l = pr.l]],
                                p, pr.locks)
    /\ UNCHANGED <<aggregation, withdraws, upgrades, nextId, calls>>

\* lines 680-692: a storage operation throws; the inner catch aborts the
\* transaction and the outer one answers 500.
DeleteUserFault(p) ==
    /\ procs[p].pc \in {"du_referees", "du_requests", "du_transactions", "du_delete", "du_commit"}
    /\ procs' = [procs EXCEPT ![p] = [Finished(p, "Internal") EXCEPT !.fault = TRUE]]
    /\ UNCHANGED <<aggregation, users, requests, withdraws, upgrades, transactions, nextId, calls>>

deleteUser(p) ==
    \/ \E id \in UserIds : DeleteUserFind(p, id)
    \/ DeleteUserReferees(p)
    \/ DeleteUserRequests(p)
    \/ DeleteUserTransactions(p)
    \/ DeleteUserDelete(p)
    \/ DeleteUserCommit(p)
    \/ DeleteUserFault(p)

(* ------------------------------------------------------ calendar (UTC) *)

\* Instants of the clock per day: a Date distinguishes moments within a day.
TicksPerDay == 2

\* leaderboardJob.js line 124 (getUTCDate() - 7): a week has seven days.
DaysPerWeek == 7

\* Date.UTC(year, month, 1): the calendar of the model has months of equal length.
DaysPerMonth == 30

\* The stat collections of the three period types.
PeriodTypes == {"daily", "weekly", "monthly"}

\* getUTCDate() of an instant, counted from day 0.
DayOf(t) == t \div TicksPerDay

\* Date.UTC(y, m, d, 0, 0, 0, 0): the first instant of day d.
StartOfDay(d) == d * TicksPerDay

\* getUTCMonth() of an instant, counted from month 0.
MonthOf(t) == DayOf(t) \div DaysPerMonth

\* Date.UTC(y, m, 1, 0, 0, 0, 0): the first instant of month m.
StartOfMonth(m) == StartOfDay(m * DaysPerMonth)

\* lines 39-51, 121-133, 203-215: the completed period before instant t, and
\* lines 83-84, 164-165, 246-251: the date before which stats are removed.
PeriodOf(type, t) ==
    IF type = "daily"
    THEN [start |-> StartOfDay(DayOf(t) - 1), end |-> StartOfDay(DayOf(t)),
          oldest |-> StartOfDay(DayOf(t) - 1 - 7)]
    ELSE IF type = "weekly"
    THEN [start |-> StartOfDay(DayOf(t) - DaysPerWeek), end |-> StartOfDay(DayOf(t)),
          oldest |-> StartOfDay(DayOf(t) - DaysPerWeek - 28)]
    ELSE [start |-> StartOfMonth(MonthOf(t) - 1), end |-> StartOfMonth(MonthOf(t)),
          oldest |-> StartOfMonth(MonthOf(t) - 1 - 12)]

(* ----------------------------------------------------- ledger with dates *)

\* A Transaction document with its createdAt timestamp.
Entry(u, t, a, at) == [user_id |-> u, type |-> t, amount |-> a, createdAt |-> at]

\* lines 69-73: withdrawals count negative, direct and passive positive.
SignedAmount(e) == IF e.type = "withdrawal" THEN 0 - e.amount ELSE e.amount

\* lines 57-63 ($match): the entries created in [start, end).
WindowEntries(led, start, end) ==
    SelectSeq(led, LAMBDA e : e.createdAt >= start /\ e.createdAt < end)

RECURSIVE SumSigned(_, _)
\* lines 65-76 ($group, $sum): the signed sum of the entries of account u.
SumSigned(es, u) ==
    IF es = <<>> THEN 0
    ELSE (IF Head(es).user_id = u THEN SignedAmount(Head(es)) ELSE 0) + SumSigned(Tail(es), u)

\* The accounts that own an entry of es.
Owners(es) == {es[k].user_id : k \in DOMAIN es}

\* lines 55-78: Transaction.aggregate gives one total per account that owns an
\* entry in the window.
WindowTotals(led, start, end) ==
    LET es == WindowEntries(led, start, end)
    IN {[userId |-> u, total |-> SumSigned(es, u)] : u \in Owners(es)}

\* A stat document.
Stat(u, total, date) == [userId |-> u, total |-> total, date |-> date]

\* An index that admits every document.
DuplicateKeyNever(coll, doc) == FALSE

\* part_004 line 24, part_002 line 25, MonthlyStat.js line 25: the unique index
\* on (userId, date) refuses a second document with the same pair.
DuplicateKey(coll, doc) ==
    \E k \in DOMAIN coll : coll[k].userId = doc.userId /\ coll[k].date = doc.date

RECURSIVE InsertManyIncrement(_, _)
\* An insert that adds the total of a refused document to the stored one.
InsertManyIncrement(coll, docs) ==
    IF docs = <<>> THEN [coll |-> coll, ok |-> TRUE]
    ELSE IF DuplicateKey(coll, Head(docs))
         THEN InsertManyIncrement(
                  [k \in DOMAIN coll |->
                      IF coll[k].userId = Head(docs).userId /\ coll[k].date = Head(docs).date
                      THEN [coll[k] EXCEPT !.total = @ + Head(docs).total] ELSE coll[k]],
                  Tail(docs))
    ELSE InsertManyIncrement(Append(coll, Head(docs)), Tail(docs))

RECURSIVE InsertMany(_, _)
\* insertMany, ordered: the documents are inserted one after the other and the
\* first refused one ends the operation with an error.
InsertMany(coll, docs) ==
    IF docs = <<>> THEN [coll |-> coll, ok |-> TRUE]
    ELSE IF DuplicateKey(coll, Head(docs)) THEN [coll |-> coll, ok |-> FALSE]
    ELSE InsertMany(Append(coll, Head(docs)), Tail(docs))

\* The sequences that list every element of the set S once.
Orders(S) ==
    {o \in [1..Cardinality(S) -> S] : \A a, b \in DOMAIN o : a # b => o[a] # o[b]}

(* ----------------------------------- Transaction.create and the commit *)

\* The day on which the jobs of the model start: a Monday and the first day of
\* month 14.
StartDay == 14 * DaysPerMonth

StartInstant == StartOfDay(StartDay)

\* The entries created since the last instant of the day before StartDay.
RecentEntries(led) == SelectSeq(led, LAMBDA e : e.createdAt >= StartInstant - 1)

\* The accounts and the entries that reach the ledger while the jobs run.
StatUsers == {"G"}

StatKinds == {<<"direct", mastericDirect>>}

\* requestController.js lines 245-255 (and withdrawController.js 209-219): a
\* handler creates a ledger entry inside its transaction; createdAt is the
\* moment of the create.
TransactionCreate(u, kind) ==
    /\ Len(RecentEntries(transactions \o inflight)) < MaxEntries
    /\ inflight' = Append(inflight, Entry(u, kind[1], kind[2], now))
    /\ UNCHANGED <<engine, transactions, now, stats, jobMeta, jobs>>

\* requestController.js lines 282-284: the commit makes the entries visible.
TransactionCommit ==
    /\ inflight # <<>>
    /\ transactions' = transactions \o inflight
    /\ inflight' = <<>>
    /\ UNCHANGED <<engine, now, stats, jobMeta, jobs>>

\* Time passes.
Tick ==
    /\ now < StartInstant + MaxTicks
    /\ now' = now + 1
    /\ UNCHANGED <<engine, transactions, stats, jobMeta, jobs, inflight>>

(* ------------------------- calculateDailyStats / Weekly / Monthly (jobs) *)

\* lines 283-298: cron fires the daily job at midnight, the weekly job at the
\* midnight of a Monday and the monthly job at the midnight of the first of the
\* month (day 0 is a Monday and a first of the month); lines 308-312: the
\* start-up timer runs the jobs whenever the server starts.
Fires(j, type, t) ==
    j = "cron"
    => /\ t = StartOfDay(DayOf(t))
       /\ type = "weekly" => DayOf(t) % DaysPerWeek = 0
       /\ type = "monthly" => DayOf(t) % DaysPerMonth = 0

\* A scheduler may start a job when it is not running one. The three jobs
\* write three separate collections, so a behaviour follows the runs of one
\* period type.
CanRun(j, type) ==
    /\ jobs[j].pc \in {"idle", "done"}
    /\ calls < MaxRuns
    /\ \A k \in JobIds : jobs[k].op \in {"none", type}

\* lines 35-78 (120-160, 200-242): the period is computed from the clock and
\* the ledger is aggregated.
CalculateStatsAggregate(j, type) ==
    /\ CanRun(j, type)
    /\ Fires(j, type, now)
    /\ calls' = calls + 1
    /\ LET period == PeriodOf(type, now)
       IN jobs' = [jobs EXCEPT ![j] =
            [op |-> type, pc |-> "cs_prune", out |-> "none",
             l |-> [period |-> period,
                    entries |-> WindowEntries(transactions, period.start, period.end),
                    totals |-> WindowTotals(transactions, period.start, period.end),
                    stored |-> <<>>]]]
    /\ UNCHANGED <<users, requests, withdraws, upgrades, transactions, nextId, procs,
                   now, stats, jobMeta, inflight>>

\* lines 82-85 (163-166, 245-252): deleteMany({date: {$lt: ...}}).
CalculateStatsPrune(j) ==
    /\ jobs[j].pc = "cs_prune"
    /\ stats' = [stats EXCEPT ![jobs[j].op] =
                    SelectSeq(@, LAMBDA r : ~(r.date < jobs[j].l.period.oldest))]
    /\ jobs' = [jobs EXCEPT ![j].pc = "cs_remove"]
    /\ UNCHANGED <<engine, transactions, now, jobMeta, inflight>>

\* lines 87-88 (168-169, 254-255): deleteMany({date: start}).
CalculateStatsRemove(j) ==
    /\ jobs[j].pc = "cs_remove"
    /\ stats' = [stats EXCEPT ![jobs[j].op] =
                    SelectSeq(@, LAMBDA r : r.date # jobs[j].l.period.start)]
    /\ jobs' = [jobs EXCEPT ![j].pc = "cs_insert"]
    /\ UNCHANGED <<engine, transactions, now, jobMeta, inflight>>

\* lines 90-104 (171-185, 257-271): insertMany of one document per total; the
\* order of the totals is the order of the $group stage, which is not fixed.  A
\* refused document throws into the catch block of lines 105-107.
CalculateStatsInsert(j) ==
    /\ jobs[j].pc = "cs_insert"
    /\ \E order \in Orders(jobs[j].l.totals) :
          LET docs == [k \in DOMAIN order |->
                          Stat(order[k].userId, order[k].total, jobs[j].l.period.start)]
              res == InsertMany(stats[jobs[j].op], docs)
          IN /\ stats' = [stats EXCEPT ![jobs[j].op] = res.coll]
             /\ jobs' = [jobs EXCEPT ![j].pc = "done",
                                     ![j].out = IF res.ok THEN "OK" ELSE "Internal",
                                     ![j].l.stored = res.coll]
    /\ UNCHANGED <<engine, transactions, now, jobMeta, inflight>>

\* lines 105-107: a storage operation of the job throws; the error is logged
\* and what was already deleted stays deleted.
CalculateStatsFault(j) ==
    /\ jobs[j].pc \in {"cs_prune", "cs_remove", "cs_insert"}
    /\ jobs' = [jobs EXCEPT ![j].pc = "done", ![j].out = "Internal"]
    /\ UNCHANGED <<engine, transactions, now, stats, jobMeta, inflight>>

calculateStats(j) ==
    \/ \E type \in PeriodTypes : CalculateStatsAggregate(j, type)
    \/ CalculateStatsPrune(j)
    \/ CalculateStatsRemove(j)
    \/ CalculateStatsInsert(j)
    \/ CalculateStatsFault(j)

(* --------------------------------------------- the ledger before StartDay *)

\* One direct commission of G on the first day of each of the months 1 to 11,
\* on the Mondays 385, 392 and 399 and on each of the days 412 to 419, and a
\* withdrawal of G and a direct commission of S on day 419.
History ==
    [m \in 1..11 |-> Entry("G", "direct", mastericDirect, StartOfMonth(m))]
    \o [w \in 1..3 |-> Entry("G", "direct", mastericDirect, StartOfDay(StartDay - 42 + 7 * w))]
    \o [d \in 1..8 |-> Entry("G", "direct", mastericDirect, StartOfDay(StartDay - 9 + d))]
    \o <<Entry("G", "withdrawal", MinWithdrawal, StartOfDay(StartDay - 1)),
         Entry("S", "direct", learnicDirect, StartOfDay(StartDay - 1))>>

\* The document the job of a period type wrote for G at instant t.
HistoryStat(type, t) ==
    LET period == PeriodOf(type, t)
    IN Stat("G", SumSigned(WindowEntries(History, period.start, period.end), "G"), period.start)

\* The stat collections as the jobs left them: the daily job ran on each of the
\* days 413 to 419, the weekly job on the Mondays 392 to 413 and the monthly job
\* on the first day of each of the months 2 to 13.
HistoryStats ==
    [daily |-> [d \in 1..7 |-> HistoryStat("daily", StartOfDay(StartDay - 8 + d))],
     weekly |-> [w \in 1..4 |-> HistoryStat("weekly", StartOfDay(StartDay - 35 + 7 * w))],
     monthly |-> [m \in 1..12 |-> HistoryStat("monthly", StartOfMonth(m + 1))]]

\* The server starts on StartDay with that ledger and those stats.
InitRecompute ==
    /\ users = InitUsers
    /\ requests = <<>>
    /\ withdraws = <<>>
    /\ upgrades = InitUpgrades
    /\ transactions = History
    /\ nextId = [requests |-> 1, withdraws |-> 1, upgrades |-> 2]
    /\ procs = [p \in Procs |-> IdleProc]
    /\ calls = 0
    /\ now = StartInstant - 1
    /\ stats = HistoryStats
    /\ jobMeta = <<>>
    /\ jobs = [j \in JobIds |-> IdleJob]
    /\ inflight = <<>>

\* The three full-recompute jobs, the handlers that write the ledger and the clock.
NextRecompute ==
    \/ \E j \in JobIds : calculateStats(j)
    \/ \E u \in StatUsers, kind \in StatKinds : TransactionCreate(u, kind)
    \/ TransactionCommit
    \/ Tick

SpecRecompute == InitRecompute /\ [][NextRecompute]_vars

(* ------------------------------- resetDailyStats / Weekly / Monthly (jobs) *)

\* upload.js lines 106-122: a second set of cron timers, with the schedules of
\* the recompute jobs, fires the reset jobs; its runs are recorded under this
\* name next to those of JobIds.
ResetJob == "reset"

\* The reset job of one period type fires once at a midnight of its schedule.
CanReset(type) ==
    /\ jobs[ResetJob].pc = "idle"
    /\ Fires("cron", type, now)
    /\ \A k \in JobIds : jobs[k].op \in {"none", type}

\* upload.js lines 65-69 (79-83, 93-97): deleteMany({}) empties the collection
\* of the period type.
ResetStatsDelete(type) ==
    /\ CanReset(type)
    /\ stats' = [stats EXCEPT ![type] = <<>>]
    /\ jobs' = [jobs EXCEPT ![ResetJob] = [IdleJob EXCEPT !.op = type, !.pc = "done", !.out = "OK"]]
    /\ UNCHANGED <<engine, transactions, now, jobMeta, inflight>>

\* upload.js lines 70-72 (84-86, 98-100): deleteMany throws; the error is logged.
ResetStatsFault(type) ==
    /\ CanReset(type)
    /\ jobs' = [jobs EXCEPT ![ResetJob] = [IdleJob EXCEPT !.op = type, !.pc = "done", !.out = "Internal"]]
    /\ UNCHANGED <<engine, transactions, now, stats, jobMeta, inflight>>

resetStats(type) ==
    \/ ResetStatsDelete(type)
    \/ ResetStatsFault(type)

\* server.js lines 110-111: both sets of timers are started; the clock has
\* reached the midnight of StartDay, a Monday and a first of the month.
InitReset ==
    /\ users = InitUsers
    /\ requests = <<>>
    /\ withdraws = <<>>
    /\ upgrades = InitUpgrades
    /\ transactions = History
    /\ nextId = [requests |-> 1, withdraws |-> 1, upgrades |-> 2]
    /\ procs = [p \in Procs |-> IdleProc]
    /\ calls = 0
    /\ now = StartInstant
    /\ stats = HistoryStats
    /\ jobMeta = <<>>
    /\ jobs = [j \in JobIds \cup {ResetJob} |-> IdleJob]
    /\ inflight = <<>>

\* The recompute jobs and the reset jobs at that midnight.
NextReset ==
    \/ \E j \in JobIds : calculateStats(j)
    \/ \E type \in PeriodTypes : resetStats(type)

SpecReset == InitReset /\ [][NextReset]_vars

(* ------------------------------------------- updateLeaderboard (job) *)

\* part_009 line 30: the start of the day of instant t.
getDailyStartDate(t) == StartOfDay(DayOf(t))

\* part_009 lines 38-45: the Monday of the week of instant t (day 0 is a
\* Monday).
getWeeklyStartDate(t) == StartOfDay(DayOf(t) - (DayOf(t) % DaysPerWeek))

\* part_009 line 53: the first day of the month of instant t.
getMonthlyStartDate(t) == StartOfMonth(MonthOf(t))

\* part_009 lines 107-111: updateOne({userId, date}, {$inc: {total}}, {upsert: true}).
Upsert(coll, u, date, amount) ==
    IF \E k \in DOMAIN coll : coll[k].userId = u /\ coll[k].date = date
    THEN [k \in DOMAIN coll |->
             IF coll[k].userId = u /\ coll[k].date = date
             THEN [coll[k] EXCEPT !.total = @ + amount] ELSE coll[k]]
    ELSE Append(coll, Stat(u, amount, date))

\* part_009 lines 64-76: the watermark is read, created at the epoch by the
\* first run, and the clock is read.  The cron timer of line 146 fires whether
\* or not the previous run has ended; each scheduler holds one firing.
UpdateLeaderboardMeta(j) ==
    /\ CanRun(j, "updateLeaderboard")
    /\ calls' = calls + 1
    /\ jobMeta' = IF jobMeta = <<>> THEN <<[lastProcessedAt |-> 0]>> ELSE jobMeta
    /\ jobs' = [jobs EXCEPT ![j] =
            [op |-> "updateLeaderboard", pc |-> "ul_find", out |-> "none",
             l |-> [lastProcessedAt |-> jobMeta'[1].lastProcessedAt, now |-> now,
                    batch |-> <<>>, todo |-> <<>>, dates |-> NoStats]]]
    /\ UNCHANGED <<users, requests, withdraws, upgrades, transactions, nextId, procs,
                   now, stats, inflight>>

\* part_009 lines 79-93: the entries created after the watermark; with none the
\* run returns; otherwise the period start dates are taken from the clock.
UpdateLeaderboardFind(j) ==
    /\ jobs[j].pc = "ul_find"
    /\ LET found == SelectSeq(transactions,
                              LAMBDA e : e.createdAt > jobs[j].l.lastProcessedAt)
       IN jobs' = [jobs EXCEPT
              ![j].pc = IF found = <<>> THEN "done" ELSE "ul_process",
              ![j].out = IF found = <<>> THEN "OK" ELSE "none",
              ![j].l.batch = found,
              ![j].l.todo = found,
              ![j].l.dates = [daily |-> getDailyStartDate(now),
                              weekly |-> getWeeklyStartDate(now),
                              monthly |-> getMonthlyStartDate(now)]]
    /\ UNCHANGED <<engine, transactions, now, stats, jobMeta, inflight>>

\* part_009 lines 96-126: the next entry is added to the daily, the weekly and
\* the monthly total of its account at the period start dates of the run.
UpdateLeaderboardProcess(j) ==
    /\ jobs[j].pc = "ul_process"
    /\ jobs[j].l.todo # <<>>
    /\ LET tx == Head(jobs[j].l.todo)
       IN stats' = [type \in PeriodTypes |->
                       Upsert(stats[type], tx.user_id, jobs[j].l.dates[type], SignedAmount(tx))]
    /\ jobs' = [jobs EXCEPT ![j].l.todo = Tail(@)]
    /\ UNCHANGED <<engine, transactions, now, jobMeta, inflight>>

\* part_009 lines 129-134: the watermark moves to the clock value of line 76.
UpdateLeaderboardAdvance(j) ==
    /\ jobs[j].pc = "ul_process"
    /\ jobs[j].l.todo = <<>>
    /\ jobMeta' = [k \in DOMAIN jobMeta |-> [lastProcessedAt |-> jobs[j].l.now]]
    /\ jobs' = [jobs EXCEPT ![j].pc = "done", ![j].out = "OK"]
    /\ UNCHANGED <<engine, transactions, now, stats, inflight>>

\* A failure that moves the watermark all the same.
UpdateLeaderboardFaultAdvancing(j) ==
    /\ jobs[j].pc \in {"ul_find", "ul_process"}
    /\ jobs' = [jobs EXCEPT ![j].pc = "done", ![j].out = "Internal"]
    /\ jobMeta' = [k \in DOMAIN jobMeta |-> [lastProcessedAt |-> jobs[j].l.now]]
    /\ UNCHANGED <<engine, transactions, now, stats, inflight>>

\* part_009 lines 135-137: a storage operation throws; the error is logged and
\* the increments already made stay.
UpdateLeaderboardFault(j) ==
    /\ jobs[j].pc \in {"ul_find", "ul_process"}
    /\ jobs' = [jobs EXCEPT ![j].pc = "done", ![j].out = "Internal"]
    /\ UNCHANGED <<engine, transactions, now, stats, jobMeta, inflight>>

updateLeaderboard(j) ==
    \/ UpdateLeaderboardMeta(j)
    \/ UpdateLeaderboardFind(j)
    \/ UpdateLeaderboardProcess(j)
    \/ UpdateLeaderboardAdvance(j)
    \/ UpdateLeaderboardFault(j)

\* The job is deployed on the day before StartDay with an empty ledger and no
\* watermark.
InitIncremental ==
    /\ users = InitUsers
    /\ requests = <<>>
    /\ withdraws = <<>>
    /\ upgrades = InitUpgrades
    /\ transactions = <<>>
    /\ nextId = [requests |-> 1, withdraws |-> 1, upgrades |-> 2]
    /\ procs = [p \in Procs |-> IdleProc]
    /\ calls = 0
    /\ now = StartInstant - 1
    /\ stats = NoStats
    /\ jobMeta = <<>>
    /\ jobs = [j \in JobIds |-> IdleJob]
    /\ inflight = <<>>

NextIncremental ==
    \/ \E j \in JobIds : updateLeaderboard(j)
    \/ \E u \in StatUsers, kind \in StatKinds : TransactionCreate(u, kind)
    \/ TransactionCommit
    \/ Tick

SpecIncremental == InitIncremental /\ [][NextIncremental]_vars

(* -------------------------------------------- POST /leaderboard (route) *)

\* userRoutes.js line 138: .limit(10).
LeaderboardLimit == 10

\* The stat documents of a collection for one anchor date.
StatsAt(coll, date) == SelectSeq(coll, LAMBDA r : r.date = date)

\* The anchor dates a collection holds documents for.
Dates(coll) == {coll[k].date : k \in DOMAIN coll}

\* userRoutes.js lines 120-123: findOne().sort({date: -1}).
MostRecentDate(coll) == CHOOSE d \in Dates(coll) : \A e \in Dates(coll) : e <= d

RECURSIVE InsertByTotal(_, _, _)
\* The place of document r in s, which is ordered by total, highest first;
\* documents of equal total keep the storage order or its reverse.
InsertByTotal(r, s, rev) ==
    IF s = <<>> THEN <<r>>
    ELSE IF r.total > Head(s).total \/ (r.total = Head(s).total /\ ~rev)
         THEN <<r>> \o s
    ELSE <<Head(s)>> \o InsertByTotal(r, Tail(s), rev)

RECURSIVE SortByTotal(_, _)
\* userRoutes.js line 137: .sort({total: -1}).
SortByTotal(rows, rev) ==
    IF rows = <<>> THEN <<>>
    ELSE InsertByTotal(Head(rows), SortByTotal(Tail(rows), rev), rev)

\* A limit that keeps every document.
LimitAll(s, n) == s

\* userRoutes.js line 138: the first n documents.
Limit(s, n) == SubSeq(s, 1, IF Len(s) < n THEN Len(s) ELSE n)

\* userRoutes.js lines 150-153: User.countDocuments({referral_of}).
Members(us, a) == Cardinality({u \in DOMAIN us : us[u].referral_of = a})

\* userRoutes.js lines 139, 143-171: populate, the response entry of each
\* document and the filter that drops the documents of deleted accounts.
Transformed(rows, us) ==
    LET kept == SelectSeq(rows, LAMBDA r : r.userId \in DOMAIN us)
    IN [k \in DOMAIN kept |->
           [userId |-> kept[k].userId, total |-> kept[k].total, date |-> kept[k].date,
            members |-> Members(us, kept[k].userId)]]

\* The types a request may carry.
QueryTypes == PeriodTypes \cup {"hourly"}

\* A request may begin when its connection is not in the middle of one.
CanQuery(p) == procs[p].pc \in {"idle", "done"} /\ calls < MaxRuns

\* userRoutes.js lines 57-66, 104-133: the type is validated and the most
\* recent date of its collection is looked up; with no document the answer is
\* an empty list.
LeaderboardRecent(p, type) ==
    /\ CanQuery(p)
    /\ calls' = calls + 1
    /\ procs' = [procs EXCEPT ![p] =
          IF type \notin PeriodTypes
          THEN [IdleProc EXCEPT !.op = "leaderboard", !.pc = "done", !.out = "InvalidInput",
                                !.l = [type |-> type, date |-> 0, data |-> <<>>]]
          ELSE IF stats[type] = <<>>
          THEN [IdleProc EXCEPT !.op = "leaderboard", !.pc = "done", !.out = "OK",
                                !.l = [type |-> type, date |-> 0, data |-> <<>>]]
          ELSE [IdleProc EXCEPT !.op = "leaderboard", !.pc = "lb_find",
                                !.l = [type |-> type, date |-> MostRecentDate(stats[type]),
                                       data |-> <<>>]]]
    /\ UNCHANGED <<aggregation, users, requests, withdraws, upgrades, transactions, nextId>>

\* userRoutes.js lines 135-177: the documents of that date, highest total
\* first, at most ten, as response entries.
LeaderboardFind(p) ==
    /\ procs[p].pc = "lb_find"
    /\ \E rev \in BOOLEAN :
          LET found == StatsAt(stats[procs[p].l.type], procs[p].l.date)
              top == Limit(SortByTotal(found, rev), LeaderboardLimit)
          IN procs' = [procs EXCEPT ![p].pc = "done", ![p].out = "OK",
                                    ![p].l.data = Transformed(top, users)]
    /\ UNCHANGED <<aggregation, users, requests, withdraws, upgrades, transactions, nextId,
                   calls>>

\* userRoutes.js lines 179-186: a query throws.
LeaderboardFault(p) ==
    /\ procs[p].pc = "lb_find"
    /\ procs' = [procs EXCEPT ![p].pc = "done", ![p].out = "Internal"]
    /\ UNCHANGED <<aggregation, users, requests, withdraws, upgrades, transactions, nextId,
                   calls>>

leaderboard(p) ==
    \/ \E type \in QueryTypes : LeaderboardRecent(p, type)
    \/ LeaderboardFind(p)
    \/ LeaderboardFault(p)

\* The accounts of the board; the last but one has been deleted.
BoardNames ==
    <<"N01", "N02", "N03", "N04", "N05", "N06", "N07", "N08", "N09", "N10", "N11", "N12",
      "N13", "N14">>

\* The total of the k-th account: totals repeat and may be negative.
BoardTotal(k) == ((k * 7) % 5) * 10 - 10

\* A stat collection with the documents of the first n accounts for the day
\* before yesterday and, when it is not empty, two documents of higher totals
\* for the day before that.
Board(n) ==
    IF n = 0 THEN <<>>
    ELSE <<Stat(BoardNames[1], 90, StartOfDay(StartDay - 3)),
           Stat(BoardNames[2], 80, StartOfDay(StartDay - 3))>>
         \o [k \in 1..n |-> Stat(BoardNames[k], BoardTotal(k), StartOfDay(StartDay - 2))]

\* The accounts that exist: G, S and the accounts of the board but one.
BoardUsers ==
    [a \in {"G", "S"} \cup ({BoardNames[k] : k \in 1..MaxBoard} \ {BoardNames[MaxBoard - 1]}) |->
        IF a \in {"G", "S"} THEN InitUsers[a]
        ELSE User(0, 0, 0, IF a = BoardNames[1] THEN Null ELSE BoardNames[1],
                  "active", "knowic")]

\* The server has just passed the midnight of StartDay with a board of n
\* accounts in every collection.
InitQuery ==
    /\ users = BoardUsers
    /\ requests = <<>>
    /\ withdraws = <<>>
    /\ upgrades = InitUpgrades
    /\ transactions = History
    /\ nextId = [requests |-> 1, withdraws |-> 1, upgrades |-> 2]
    /\ procs = [p \in Procs |-> IdleProc]
    /\ calls = 0
    /\ now = StartInstant
    /\ \E n \in 0..MaxBoard : stats = [type \in PeriodTypes |-> Board(n)]
    /\ jobMeta = <<>>
    /\ jobs = [j \in JobIds |-> IdleJob]
    /\ inflight = <<>>

NextQuery ==
    \/ \E p \in Procs : leaderboard(p)
    \/ \E j \in JobIds : calculateStats(j)

SpecQuery == InitQuery /\ [][NextQuery]_vars

(* ------------------------------------------------------ getMe (no txn) *)

\* The ledger entries of account a.
EntriesOf(led, a) == SelectSeq(led, LAMBDA e : e.user_id = a)

\* withdrawController.js lines 718-723: the balance computed from the entries.
CalculatedBalance(all, a) ==
    SumSeq(all, a, {"direct", "passive"}) - SumSeq(all, a, {"withdrawal"})

\* lines 732-734: the direct income computed from the entries.
DirectIncome(all, a) == SumSeq(all, a, {"direct"})

\* A passive income that leaves the withdrawals out.
PassiveIncomeEarned(all, a) == SumSeq(all, a, {"passive"})

\* lines 736-742: the passive income computed from the entries, withdrawals
\* subtracted.
PassiveIncome(all, a) == SumSeq(all, a, {"passive"}) - SumSeq(all, a, {"withdrawal"})

\* lines 745-748: the income fields of the document differ from the computed ones.
IncomeMismatch(doc, all, a) ==
    doc.direct_income # DirectIncome(all, a) \/ doc.passive_income # PassiveIncome(all, a)

\* The callers of getMe: G, S and a caller whose account no longer exists.
MeIds == {"G", "S", "X"}

\* lines 702-712: the caller's document is read.  alone and began record that
\* no other call was in progress when this one began and how many calls had
\* begun by then.
GetMeFind(p, a) ==
    /\ CanStartWithdrawal(p)
    /\ calls' = calls + 1
    /\ LET me == [IdleProc EXCEPT !.op = "getMe"]
       IN procs' = [procs EXCEPT ![p] =
            IF Missing(users, a) THEN [me EXCEPT !.pc = "done", !.out = "NotFound"]
            ELSE [me EXCEPT !.pc = "gm_all",
                            !.l = [user |-> a, doc |-> FindById(users, a), all |-> <<>>,
                                   alone |-> \A q \in Procs \ {p} :
                                                 procs[q].pc \in {"idle", "done"},
                                   began |-> calls']]]
    /\ UNCHANGED <<aggregation, users, requests, withdraws, upgrades, transactions, nextId>>

\* The step after the balance has been compared or saved.
AfterBalance(doc, all, a) == IF IncomeMismatch(doc, all, a) THEN "gm_saveIncome" ELSE "gm_rest"

\* lines 715-727: the caller's entries are read and the balance is compared.
GetMeTransactions(p) ==
    /\ procs[p].pc = "gm_all"
    /\ LET a == procs[p].l.user
           doc == procs[p].l.doc
           all == EntriesOf(transactions, a)
       IN procs' = [procs EXCEPT ![p].l.all = all,
                                 ![p].pc = IF doc.balance # CalculatedBalance(all, a)
                                           THEN "gm_saveBalance"
                                           ELSE AfterBalance(doc, all, a)]
    /\ UNCHANGED <<aggregation, users, requests, withdraws, upgrades, transactions, nextId,
                   calls>>

\* lines 726-729: user.balance = calculatedBalance; user.save().
GetMeSaveBalance(p) ==
    /\ procs[p].pc = "gm_saveBalance"
    /\ LET a == procs[p].l.user
           all == procs[p].l.all
       IN IF Missing(users, a)
          THEN /\ procs' = [procs EXCEPT ![p] = Finished(p, "Internal")]
               /\ UNCHANGED users
          ELSE /\ Writable(p, UserKey(a))
               /\ users' = [users EXCEPT ![a].balance = CalculatedBalance(all, a)]
               /\ procs' = Written(p, [procs[p] EXCEPT !.pc = AfterBalance(procs[p].l.doc, all, a),
                                                       !.wrote = TRUE],
                                   {UserKey(a)})
    /\ UNCHANGED <<aggregation, requests, withdraws, upgrades, transactions, nextId, calls>>

\* lines 745-751: user.direct_income and user.passive_income are set; user.save().
GetMeSaveIncome(p) ==
    /\ procs[p].pc = "gm_saveIncome"
    /\ LET a == procs[p].l.user
           all == procs[p].l.all
       IN IF Missing(users, a)
          THEN /\ procs' = [procs EXCEPT ![p] = Finished(p, "Internal")]
               /\ UNCHANGED users
          ELSE /\ Writable(p, UserKey(a))
               /\ users' = [users EXCEPT ![a].direct_income = DirectIncome(all, a),
                                         ![a].passive_income = PassiveIncome(all, a)]
               /\ procs' = Written(p, [procs[p] EXCEPT !.pc = "gm_rest", !.wrote = TRUE],
                                   {UserKey(a)})
    /\ UNCHANGED <<aggregation, requests, withdraws, upgrades, transactions, nextId, calls>>

\* lines 753-924: the latest entries and the referrals
\* are read and the response is sent.
GetMeRest(p) ==
    /\ procs[p].pc = "gm_rest"
    /\ procs' = [procs EXCEPT ![p] = [Finished(p, "OK") EXCEPT !.l = procs[p].l]]
    /\ UNCHANGED <<aggregation, users, requests, withdraws, upgrades, transactions, nextId,
                   calls>>

\* lines 925-932: a storage operation throws.
GetMeFault(p) ==
    /\ procs[p].pc \in {"gm_all", "gm_saveBalance", "gm_saveIncome", "gm_rest"}
    /\ procs' = [procs EXCEPT ![p] = [Finished(p, "Internal") EXCEPT !.fault = TRUE]]
    /\ UNCHANGED <<aggregation, users, requests, withdraws, upgrades, transactions, nextId,
                   calls>>

getMe(p) ==
    \/ \E a \in MeIds : GetMeFind(p, a)
    \/ GetMeTransactions(p)
    \/ GetMeSaveBalance(p)
    \/ GetMeSaveIncome(p)
    \/ GetMeRest(p)
    \/ GetMeFault(p)

(* ------------------------------------------------------- specifications *)

\* The activation engine alone.
\* The admin's account deletion next to the activation routes.
NextDeletion == \E p \in Procs : deleteUser(p) \/ createRequest(p) \/ approveRequest(p)

SpecDeletion == Init /\ [][NextDeletion]_vars

NextActivation == \E p \in Procs : createRequest(p) \/ approveRequest(p) \/ rejectRequest(p)

SpecActivation == Init /\ [][NextActivation]_vars

\* The withdrawal engine alone.
NextWithdrawal == \E p \in Procs : createWithdrawal(p) \/ approveWithdrawal(p) \/ rejectWithdrawal(p)

SpecWithdrawal == Init /\ [][NextWithdrawal]_vars

\* The withdrawals and the calls of getMe.
NextMe == \E p \in Procs : getMe(p) \/ createWithdrawal(p) \/ approveWithdrawal(p)

SpecMe == Init /\ [][NextMe]_vars

\* The upgrade engine alone.
NextUpgrade ==
    \E p \in Procs : createUpgradeRequest(p) \/ referrerApproveRequest(p) \/ approveUpgradeRequest(p)

SpecUpgrade == Init /\ [][NextUpgrade]_vars

\* The review of the upgrade request of A: its new referrer and the admin each
\* approve or reject.
NextReview ==
    \E p \in Procs :
        \/ referrerApproveRequest(p) \/ referrerRejectRequest(p)
        \/ approveUpgradeRequest(p) \/ rejectUpgradeRequest(p)

SpecReview == Init /\ [][NextReview]_vars

\* The upgrade engine after S has approved the upgrade request of A.
InitReferral ==
    /\ users = InitUsers
    /\ requests = <<>>
    /\ withdraws = <<>>
    /\ upgrades = [InitUpgrades EXCEPT ![1].status = "user_approved", ![1].proof_image = "proof"]
    /\ transactions = InitTransactions
    /\ nextId = [requests |-> 1, withdraws |-> 1, upgrades |-> 2]
    /\ procs = [p \in Procs |-> IdleProc]
    /\ calls = 0
    /\ StatsIdle

SpecReferral == InitReferral /\ [][NextUpgrade]_vars

\* Request creation alone, call after call; U has signed up with the referral code of S or with
\* that of A, whose plan is the lowest.
InitHierarchy ==
    /\ \E r \in {"S", "A"} : users = [InitUsers EXCEPT !["U"].referral_of = r]
    /\ requests = <<>>
    /\ withdraws = <<>>
    /\ upgrades = InitUpgrades
    /\ transactions = InitTransactions
    /\ nextId = [requests |-> 1, withdraws |-> 1, upgrades |-> 2]
    /\ procs = [p \in Procs |-> IdleProc]
    /\ calls = 0
    /\ StatsIdle

\* One createRequest call at a time.
NextHierarchy == createRequest("p1")

SpecHierarchy == InitHierarchy /\ [][NextHierarchy]_vars

\* S has sent the activation request of U and has approved the upgrade
\* request of A, and G has asked to withdraw its whole passive income; all
\* three wait for the admin.
InitFunds ==
    /\ users = InitUsers
    /\ requests = <<[user_id |-> "U", sender_id |-> "S", plan |-> "masteric", status |-> "pending"]>>
    /\ withdraws = <<[user_id |-> "G", amount |-> InitUsers["G"].passive_income,
                      status |-> "pending"]>>
    /\ upgrades = [InitUpgrades EXCEPT ![1].status = "user_approved", ![1].proof_image = "proof"]
    /\ transactions = InitTransactions
    /\ nextId = [requests |-> 2, withdraws |-> 2, upgrades |-> 2]
    /\ procs = [p \in Procs |-> IdleProc]
    /\ calls = 0
    /\ StatsIdle

\* The withdrawal engine next to the admin's approvals of activations and
\* upgrades, for fewer than MaxCalls calls.
NextFunds ==
    /\ \E p \in Procs :
          \/ createWithdrawal(p) \/ approveWithdrawal(p) \/ rejectWithdrawal(p)
          \/ approveRequest(p) \/ approveUpgradeRequest(p)
    /\ calls' < MaxCalls

SpecFunds == InitFunds /\ [][NextFunds]_vars

\* Two createRequest calls of S for U have overlapped: one has stored its
\* request for masteric and answered; the other, for knowic, has passed its
\* lookup of line 91 before that and is about to store its own (line 104).
InitOverlap ==
    /\ users = InitUsers
    /\ requests = <<[user_id |-> "U", sender_id |-> "S", plan |-> "masteric", status |-> "pending"]>>
    /\ withdraws = <<>>
    /\ upgrades = InitUpgrades
    /\ transactions = InitTransactions
    /\ nextId = [requests |-> 2, withdraws |-> 1, upgrades |-> 2]
    /\ procs = [p \in Procs |->
                  IF p = "p2"
                  THEN [IdleProc EXCEPT !.op = "createRequest", !.pc = "cr_create",
                                        !.l = [user_id |-> "U", sender_id |-> "S", plan |-> "knowic"]]
                  ELSE IdleProc]
    /\ calls = 0
    /\ StatsIdle

\* The activation routes from there.
NextOverlap == \E p \in Procs : createRequest(p) \/ approveRequest(p)

SpecOverlap == InitOverlap /\ [][NextOverlap]_vars

\* The admin has approved a withdrawal of G's whole passive income (the debit
\* of withdrawController.js line 204 leaves the balance as it was), and S has
\* sent the activation request of U.
InitCredit ==
    /\ users = [InitUsers EXCEPT !["G"].passive_income = 0]
    /\ requests = <<[user_id |-> "U", sender_id |-> "S", plan |-> "masteric", status |-> "pending"]>>
    /\ withdraws = <<[user_id |-> "G", amount |-> InitUsers["G"].passive_income,
                      status |-> "approved"]>>
    /\ upgrades = InitUpgrades
    /\ transactions = Append(InitTransactions,
                             Tx("G", "withdrawal", InitUsers["G"].passive_income))
    /\ nextId = [requests |-> 2, withdraws |-> 2, upgrades |-> 2]
    /\ procs = [p \in Procs |-> IdleProc]
    /\ calls = 0
    /\ StatsIdle

\* The calls of getMe next to the admin's approvals of activation requests.
NextCredit == \E p \in Procs : getMe(p) \/ approveRequest(p)

SpecCredit == InitCredit /\ [][NextCredit]_vars

(* ================================================================ claims *)

\* No handler is in the middle of a call.
Quiescent == \A p \in Procs : procs[p].pc \in {"idle", "done"}

\* The signed sum of the ledger entries of account a.
LedgerBalance(a) ==
    SumSeq(transactions, a, {"direct", "passive"}) - SumSeq(transactions, a, {"withdrawal"})

\* C1: after every engine operation, the cached balance of every account equals
\* the sum of its direct and passive ledger entries minus the sum of its
\* withdrawal ledger entries.
C1_Reconciliation ==
    Quiescent => \A a \in DOMAIN users : users[a].balance = LedgerBalance(a)

\* Two finished calls of operation o on the same document that both arrived
\* while it was pending, neither of which met a storage failure.
ConcurrentPair(p, q, o) ==
    /\ p # q
    /\ procs[p].pc = "done" /\ procs[q].pc = "done"
    /\ procs[p].op = o /\ procs[q].op = o
    /\ procs[p].id = procs[q].id
    /\ procs[p].pre = "pending" /\ procs[q].pre = "pending"
    /\ ~procs[p].fault /\ ~procs[q].fault

\* The approved withdrawals of account a.
ApprovedWithdrawals(a) ==
    {i \in DOMAIN withdraws : withdraws[i].user_id = a /\ withdraws[i].status = "approved"}

RECURSIVE SumAmounts(_)
\* The sum of the amounts of a set of withdrawals.
SumAmounts(is) ==
    IF is = {} THEN 0
    ELSE LET i == CHOOSE j \in is : TRUE IN withdraws[i].amount + SumAmounts(is \ {i})

\* C2: of two concurrent approveWithdrawal calls on the same pending withdrawal
\* (with sufficient funds) exactly one succeeds, the withdrawal is approved, and
\* the account is debited once: one withdrawal ledger entry per approved
\* withdrawal, passive_income reduced by the approved amounts only.
C2_ExactlyOneDebit ==
    \A p, q \in Procs :
        (/\ ConcurrentPair(p, q, "approveWithdrawal")
         /\ procs[p].out \notin {"InsufficientFunds", "NotFound"}
         /\ procs[q].out \notin {"InsufficientFunds", "NotFound"})
        => LET a == withdraws[procs[p].id].user_id
           IN /\ (procs[p].out = "OK") # (procs[q].out = "OK")
              /\ withdraws[procs[p].id].status = "approved"
              /\ CountSeq(transactions, a, {"withdrawal"}) = Cardinality(ApprovedWithdrawals(a))
              /\ SumSeq(transactions, a, {"withdrawal"}) = SumAmounts(ApprovedWithdrawals(a))
              /\ users[a].passive_income =
                     InitUsers[a].passive_income - SumAmounts(ApprovedWithdrawals(a))

\* Two approveWithdrawal calls raced on one pending withdrawal and both ended.
C2_Witness ==
    \E p, q \in Procs :
        /\ ConcurrentPair(p, q, "approveWithdrawal")
        /\ {procs[p].out, procs[q].out} = {"OK", "Internal"}

\* C3: of two concurrent approveRequest calls on the same pending request the
\* first succeeds and the second observes InvalidState.
C3_SecondObservesInvalidState ==
    \A p, q \in Procs :
        (ConcurrentPair(p, q, "approveRequest") /\ procs[p].out = "OK")
        => procs[q].out = "InvalidState"

\* C4: an approveRequest or rejectRequest that arrives when the request is
\* already approved fails with InvalidState and changes nothing.
C4_SecondApprovalFails ==
    \A p \in Procs :
        (/\ procs[p].pc = "done"
         /\ procs[p].op \in {"approveRequest", "rejectRequest"}
         /\ procs[p].pre = "approved")
        => procs[p].out = "InvalidState" /\ ~procs[p].wrote

\* An approveRequest arrived after the request had been approved.
C4_Witness ==
    \E p \in Procs :
        /\ procs[p].pc = "done" /\ procs[p].op = "approveRequest"
        /\ procs[p].pre = "approved"

\* Request i, not approved before the step, is approved after it.
RequestApproved(i) ==
    /\ i \in DOMAIN requests /\ i \in DOMAIN requests'
    /\ requests[i].status # "approved" /\ requests'[i].status = "approved"

\* The step is the whole approval of request i: the request is approved, the
\* subject is active with the requested plan, the subject's upline (when there
\* is one) is credited the direct commission with its ledger entry, and the
\* upline's upline (when there is one) the passive commission with its entry.
WholeApproval(i) ==
    LET r == requests[i]
        u == r.user_id
        s == users[u].referral_of
        g == users[s].referral_of
        pricing == PLAN_PRICING[r.plan]
        activated == [users EXCEPT ![u].status = "active", ![u].plan = r.plan]
        credited == [activated EXCEPT ![s].direct_income = @ + pricing.direct,
                                      ![s].balance = @ + pricing.direct]
        both == [credited EXCEPT ![g].passive_income = @ + pricing.passive,
                                 ![g].balance = @ + pricing.passive]
    IN /\ requests' = [requests EXCEPT ![i].status = "approved"]
       /\ IF s = Null
          THEN users' = activated /\ transactions' = transactions
          ELSE IF g = Null
          THEN /\ users' = credited
               /\ transactions' = Append(transactions, Tx(s, "direct", pricing.direct))
          ELSE /\ users' = both
               /\ transactions' = transactions \o <<Tx(s, "direct", pricing.direct),
                                                    Tx(g, "passive", pricing.passive)>>

\* C5: approveRequest is all-or-nothing.  Every step that changes an account or
\* the ledger, or that makes a request approved, is the whole approval of one
\* pending request; so in every state, also after a failure at any step, a
\* request is either pending with nothing of its approval visible or approved
\* with activation, credits and ledger entries all present.
C5_AllOrNothing ==
    [][(\/ users' # users
        \/ transactions' # transactions
        \/ \E i \in DocIds : RequestApproved(i))
       => \E i \in DOMAIN requests : requests[i].status = "pending" /\ WholeApproval(i)]_vars

\* One approveRequest failed midway and another approved a request whose
\* subject has an upline with an upline: the whole approval is visible.
C5_Witness ==
    /\ \E p \in Procs : procs[p].pc = "done" /\ procs[p].op = "approveRequest" /\ procs[p].fault
    /\ \E i \in DOMAIN requests :
          /\ requests[i].status = "approved"
          /\ users[requests[i].user_id].referral_of = "S"
          /\ users[requests[i].user_id].status = "active"
          /\ Len(transactions) = Len(InitTransactions) + 2

\* Withdrawal i, not approved before the step, is approved after it.
WithdrawalApproved(i) ==
    /\ i \in DOMAIN withdraws /\ i \in DOMAIN withdraws'
    /\ withdraws[i].status # "approved" /\ withdraws'[i].status = "approved"

\* The step is the whole approval of withdrawal i: the withdrawal is approved,
\* the account's passive_income is reduced by the amount and one withdrawal
\* entry of that amount is appended for the account.
WholeWithdrawal(i) ==
    LET w == withdraws[i]
        a == w.user_id
    IN /\ withdraws' = [withdraws EXCEPT ![i].status = "approved"]
       /\ users'[a].passive_income = users[a].passive_income - w.amount
       /\ users'[a].direct_income = users[a].direct_income
       /\ \A b \in DOMAIN users \ {a} : users'[b] = users[b]
       /\ transactions' = Append(transactions, Tx(a, "withdrawal", w.amount))

\* C6: approveWithdrawal is all-or-nothing.  Every step that changes an account
\* or the ledger, or that makes a withdrawal approved, is the whole approval of
\* one pending withdrawal: passive_income reduced by exactly the amount and
\* exactly one withdrawal entry of that amount appended.
C6_AllOrNothing ==
    [][(\/ users' # users
        \/ transactions' # transactions
        \/ \E i \in DocIds : WithdrawalApproved(i))
       => \E i \in DOMAIN withdraws : withdraws[i].status = "pending" /\ WholeWithdrawal(i)]_vars

\* One approveWithdrawal failed midway and another approved a withdrawal.
C6_Witness ==
    /\ \E p \in Procs : procs[p].pc = "done" /\ procs[p].op = "approveWithdrawal" /\ procs[p].fault
    /\ \E i \in DOMAIN withdraws :
          /\ withdraws[i].status = "approved"
          /\ users[withdraws[i].user_id].passive_income =
                 InitUsers[withdraws[i].user_id].passive_income - withdraws[i].amount
          /\ transactions = Append(InitTransactions,
                                   Tx(withdraws[i].user_id, "withdrawal", withdraws[i].amount))

\* The direct ledger entries of account a that the initial ledger does not hold.
NewDirectEntries(a) ==
    CountSeq(transactions, a, {"direct"}) - CountSeq(InitTransactions, a, {"direct"})

\* The approved upgrade requests that name r as the new referrer.
ApprovedUpgradesOf(r) ==
    {i \in DOMAIN upgrades : upgrades[i].new_referrer_id = r /\ upgrades[i].status = "approved"}

\* C7: admin approval of an upgrade request is atomic and at most once.  The
\* new referrer holds one direct entry per approved upgrade request and no
\* more; while a request is user_approved the subject still holds the previous
\* plan and its previous upline.
C7_AtomicAtMostOnce ==
    /\ \A r \in DOMAIN users : NewDirectEntries(r) = Cardinality(ApprovedUpgradesOf(r))
    /\ \A i \in DOMAIN upgrades :
          upgrades[i].status = "user_approved"
          => /\ users[upgrades[i].user_id].plan = upgrades[i].previous_plan
             /\ users[upgrades[i].user_id].referral_of = InitUsers[upgrades[i].user_id].referral_of

\* The new referrer was paid twice for one upgrade request.
C7_PaidTwice ==
    \E r \in DOMAIN users : NewDirectEntries(r) > Cardinality({i \in DOMAIN upgrades : upgrades[i].new_referrer_id = r})

\* C8: whenever approveRequest or approveWithdrawal ends with an error outcome,
\* the call has changed nothing: no status, no account and no ledger entry.
C8_ErrorLeavesStateUnchanged ==
    \A p \in Procs :
        (/\ procs[p].pc = "done"
         /\ procs[p].op \in {"approveRequest", "approveWithdrawal"}
         /\ procs[p].out # "OK")
        => ~procs[p].wrote

\* The literal commission amounts of the three plans.
C9_Direct == [knowic |-> 16, learnic |-> 40, masteric |-> 85]

C9_Passive == [knowic |-> 2, learnic |-> 4, masteric |-> 7]

C10_SelfActivationPaysNothing ==
    [][\A i \in DocIds :
         (/\ RequestApproved(i)
          /\ users[requests[i].user_id].referral_of = Null)
         => LET r == requests[i]
                u == r.user_id
            IN /\ transactions' = transactions
               /\ \A a \in DOMAIN users :
                     /\ users'[a].balance = users[a].balance
                     /\ users'[a].direct_income = users[a].direct_income
                     /\ users'[a].passive_income = users[a].passive_income
               /\ users' = [users EXCEPT ![u].status = "active", ![u].plan = r.plan]
               /\ requests' = [requests EXCEPT ![i].status = "approved"]]_vars

\* V, who has no upline, was activated and the ledger is as it was.
C10_Witness ==
    /\ \E i \in DOMAIN requests : requests[i].status = "approved" /\ requests[i].user_id = "V"
    /\ users["V"].status = "active" /\ users["V"].plan # Null
    /\ transactions = InitTransactions

RECURSIVE Reaches(_, _, _)
\* Account b is met within n steps when the referral pointers are followed from a.
Reaches(a, b, n) ==
    /\ n > 0
    /\ users[a].referral_of \in DOMAIN users
    /\ (users[a].referral_of = b \/ Reaches(users[a].referral_of, b, n - 1))

\* C11: the referral pointers form a forest in every reachable state: no account
\* is its own upline or its own ancestor.
C11_Forest ==
    \A a \in DOMAIN users : ~Reaches(a, a, Cardinality(DOMAIN users))

\* The tiers of the three plans.
C12_Tier == [knowic |-> 1, learnic |-> 2, masteric |-> 3]

\* C12: when createRequest, submitted by the subject's upline whose plan is
\* tier s, reaches the hierarchy check for a plan of tier p, it fails with
\* PlanNotAllowed and persists nothing if p > s and goes on to the next check if
\* p <= s; every request persisted by an upline has a plan tier not above the
\* tier of the upline's plan.
C12_PlanHierarchy ==
    [][/\ \A p \in Procs :
            (procs[p].pc = "cr_sender" /\ procs'[p] # procs[p]
             /\ users[procs[p].l.sender_id].plan \in Plans)
            => LET st == C12_Tier[users[procs[p].l.sender_id].plan]
                   pt == C12_Tier[procs[p].l.plan]
               IN IF pt > st
                  THEN /\ procs'[p].pc = "done" /\ procs'[p].out = "PlanNotAllowed"
                       /\ requests' = requests
                  ELSE procs'[p].pc = "cr_existing"
       /\ \A i \in DOMAIN requests' \ DOMAIN requests :
            requests'[i].sender_id # requests'[i].user_id
            => /\ users[requests'[i].sender_id].plan \in Plans
               /\ C12_Tier[requests'[i].plan] <= C12_Tier[users[requests'[i].sender_id].plan]]_vars

\* A, whose plan is tier 1, was refused a request for a higher plan, and an
\* upline's request was persisted.
C12_Witness ==
    /\ users["U"].referral_of = "A"
    /\ \E p \in Procs : procs[p].pc = "done" /\ procs[p].op = "createRequest"
                        /\ procs[p].out = "PlanNotAllowed"
    /\ \E i \in DOMAIN requests : requests[i].sender_id # requests[i].user_id

\* The caller may not submit a request for the subject: the subject has an
\* upline other than the caller, or has none and is not the caller.
C13_NotEntitled(sender_id, user_id) ==
    IF users[user_id].referral_of # Null
    THEN users[user_id].referral_of # sender_id
    ELSE user_id # sender_id

\* C13: createRequest for an existing, pending subject fails with Forbidden and
\* persists nothing when the subject has an upline and the caller is not that
\* upline, and when the subject has no upline and the caller is not the subject;
\* every persisted request was submitted by the subject's upline, or by the
\* subject when it had none.
C13_Forbidden ==
    [][/\ \A p \in Procs :
            (calls' = calls + 1 /\ procs'[p] # procs[p] /\ procs'[p].op = "createRequest")
            => \A sender_id \in UserIds, user_id \in UserIds, plan \in Plans :
                 (/\ user_id \in DOMAIN users
                  /\ users[user_id].status = "pending"
                  /\ C13_NotEntitled(sender_id, user_id)
                  /\ CreateRequestUser(p, sender_id, user_id, plan))
                 => /\ procs'[p].pc = "done" /\ procs'[p].out = "Forbidden"
                    /\ requests' = requests
       /\ \A i \in DOMAIN requests' \ DOMAIN requests :
            ~C13_NotEntitled(requests'[i].sender_id, requests'[i].user_id)]_vars

\* A createRequest was refused as Forbidden and another one was persisted.
C13_Witness ==
    /\ \E p \in Procs : procs[p].pc = "done" /\ procs[p].op = "createRequest"
                        /\ procs[p].out = "Forbidden"
    /\ requests # <<>>

\* The pending activation requests of subject a.
PendingRequests(a) ==
    {i \in DOMAIN requests : requests[i].user_id = a /\ requests[i].status = "pending"}

\* C14: in every reachable state there is at most one pending activation
\* request per subject account.
C14_OnePendingRequest ==
    \A a \in DOMAIN users : Cardinality(PendingRequests(a)) <= 1

\* The pending withdrawals of account a.
PendingWithdrawals(a) ==
    {i \in DOMAIN withdraws : withdraws[i].user_id = a /\ withdraws[i].status = "pending"}

\* C15: in every reachable state there is at most one pending withdrawal per
\* account.
C15_OnePendingWithdrawal ==
    \A a \in DOMAIN users : Cardinality(PendingWithdrawals(a)) <= 1

C17_FundsRechecked ==
    [][\A p \in Procs :
         (/\ calls' = calls + 1 /\ procs'[p] # procs[p]
          /\ procs'[p].op = "approveWithdrawal"
          /\ procs'[p].id \in DOMAIN withdraws
          /\ withdraws[procs'[p].id].status = "pending"
          /\ users[withdraws[procs'[p].id].user_id].passive_income
                 < withdraws[procs'[p].id].amount)
         => /\ procs'[p].pc = "done" /\ procs'[p].out = "InsufficientFunds"
            /\ withdraws' = withdraws /\ users' = users /\ transactions' = transactions]_vars

\* An approveWithdrawal ended with InsufficientFunds; its withdrawal is still
\* pending and the account, which no longer holds the amount, was debited for
\* another withdrawal only.
C17_Witness ==
    \E p \in Procs :
        /\ procs[p].pc = "done" /\ procs[p].op = "approveWithdrawal"
        /\ procs[p].out = "InsufficientFunds"
        /\ withdraws[procs[p].id].status = "pending"
        /\ users[withdraws[procs[p].id].user_id].passive_income < withdraws[procs[p].id].amount
        /\ Len(transactions) = Len(InitTransactions) + 1

\* The status of upgrade request i changes to st in the step.
UpgradeReaches(i, st) ==
    /\ i \in DOMAIN upgrades'
    /\ upgrades'[i].status = st
    /\ (i \in DOMAIN upgrades => upgrades[i].status # st)

\* C18: upgrade approval is two-step.  A request reaches approved only from
\* user_approved, and reaches user_approved only from created, with a proof,
\* through referrerApproveRequest; an admin approval of a request still in
\* created state, and a sponsor approval by an account other than the new
\* referrer, fail without changing any state.
C18_TwoStep ==
    [][/\ \A i \in DocIds :
            /\ UpgradeReaches(i, "approved")
               => i \in DOMAIN upgrades /\ upgrades[i].status = "user_approved"
            /\ UpgradeReaches(i, "user_approved")
               => /\ i \in DOMAIN upgrades /\ upgrades[i].status = "created"
                  /\ upgrades'[i].proof_image # Null
                  /\ \E p \in Procs : /\ procs[p].op = "referrerApproveRequest"
                                      /\ procs[p].id = i /\ procs[p].pc = "ra_save"
                                      /\ procs'[p].pc = "done"
       /\ \A p \in Procs :
            (calls' = calls + 1 /\ procs'[p] # procs[p])
            => /\ (/\ procs'[p].op = "approveUpgradeRequest"
                   /\ procs'[p].id \in DOMAIN upgrades
                   /\ upgrades[procs'[p].id].status = "created")
                  => /\ procs'[p].pc = "done" /\ procs'[p].out = "InvalidState"
                     /\ UNCHANGED <<users, upgrades, transactions>>
               /\ procs'[p].op = "referrerApproveRequest"
                  => \A id \in DOMAIN upgrades, userId \in UserIds, file \in BOOLEAN,
                        discounted \in BOOLEAN :
                        (/\ userId # upgrades[id].new_referrer_id
                         /\ ReferrerApproveRequestFind(p, id, userId, file, discounted))
                        => /\ procs'[p].pc = "done" /\ procs'[p].out = "Forbidden"
                           /\ UNCHANGED <<users, upgrades, transactions>>]_vars

\* A request that an admin approval has completed is back in user_approved.
C18_Reopened ==
    \E i \in DOMAIN upgrades, p \in Procs :
        /\ upgrades[i].status = "user_approved"
        /\ procs[p].op = "approveUpgradeRequest" /\ procs[p].id = i
        /\ procs[p].pc = "done" /\ procs[p].out = "OK"

\* The new referrer's approval of upgrade request i, sent as discounted, succeeded.
ApprovedAsDiscounted(i) ==
    \E q \in Procs : /\ procs[q].op = "referrerApproveRequest" /\ procs[q].id = i
                     /\ procs[q].pc = "done" /\ procs[q].out = "OK"
                     /\ procs[q].l.discounted

\* C19: discounted upgrades never trigger the passive commission.  When the
\* new referrer approved an upgrade request as discounted, no step of the
\* admin approval of that request changes a passive_income or appends a
\* passive ledger entry.
C19_NoPassiveOnDiscount ==
    [][\A p \in Procs :
          (/\ procs[p].op = "approveUpgradeRequest"
           /\ procs[p].pc # "done"
           /\ procs'[p] # procs[p]
           /\ ApprovedAsDiscounted(procs[p].id))
          => /\ \A u \in DOMAIN users :
                  u \in DOMAIN users' => users'[u].passive_income = users[u].passive_income
             /\ Len(transactions') > Len(transactions)
                => transactions'[Len(transactions')].type # "passive"]_vars

\* An admin approval is about to append the passive entry of a request that was
\* approved as discounted.
C19_PassiveOnDiscount ==
    \E p \in Procs : /\ procs[p].op = "approveUpgradeRequest"
                     /\ procs[p].pc = "au_passive"
                     /\ ApprovedAsDiscounted(procs[p].id)

\* Process p, running the admin approval of a request that was not approved as
\* discounted, moves from position a to position b in the step.
ApprovalMoves(p, a, b) ==
    /\ procs[p].op = "approveUpgradeRequest"
    /\ procs[p].pc = a
    /\ procs'[p].pc = b
    /\ ~ApprovedAsDiscounted(procs[p].id)

\* C20: on admin approval of a user_approved, non-discounted upgrade request to
\* plan p with new referrer S: the subject's plan becomes p and its upline S;
\* S's direct_income and balance each grow by exactly 16/40/85 with one direct
\* entry; when S has an upline G, G's passive_income and balance each grow by
\* exactly 2/4/7 with one passive entry; and the request becomes approved.
C20_UpgradeApproval ==
    [][\A p \in Procs :
          LET req == procs[p].l.upgradeRequest
              u == req.user_id
              s == req.new_referrer_id
              g == users[s].referral_of
              d == C9_Direct[req.new_plan]
              ps == C9_Passive[req.new_plan]
          IN /\ ApprovalMoves(p, "au_saveUser", "au_saveReferrer")
                => users'[u].plan = req.new_plan /\ users'[u].referral_of = s
             /\ ApprovalMoves(p, "au_saveReferrer", "au_direct")
                => /\ users'[s].direct_income = users[s].direct_income + d
                   /\ users'[s].balance = users[s].balance + d
             /\ ApprovalMoves(p, "au_direct", "au_grand")
                => transactions' = Append(transactions, Tx(s, "direct", d))
             /\ (ApprovalMoves(p, "au_grand", "au_saveRequest") => g = Null)
             /\ ApprovalMoves(p, "au_saveGrand", "au_passive")
                => /\ users'[g].passive_income = users[g].passive_income + ps
                   /\ users'[g].balance = users[g].balance + ps
             /\ ApprovalMoves(p, "au_passive", "au_saveRequest")
                => transactions' = Append(transactions, Tx(g, "passive", ps))
             /\ ApprovalMoves(p, "au_saveRequest", "done")
                => (procs'[p].out = "OK" => upgrades'[procs[p].id].status = "approved")]_vars

\* Two direct entries of 40 were appended for S, whose direct_income and balance
\* hold only 40 more than at the start.
C20_LostCredit ==
    /\ SumSeq(transactions, "S", {"direct"}) = SumSeq(InitTransactions, "S", {"direct"}) + 80
    /\ users["S"].direct_income = InitUsers["S"].direct_income + 40
    /\ users["S"].balance = InitUsers["S"].balance + 40
    /\ \A p \in Procs : procs[p].pc \in {"idle", "done"}

C22_RejectWithdrawal ==
    [][/\ \A p \in Procs :
            /\ (calls' = calls + 1 /\ procs'[p] # procs[p] /\ procs'[p].op = "rejectWithdrawal")
               => /\ UNCHANGED <<users, withdraws, transactions>>
                  /\ StatusOf(withdraws, procs'[p].id) # "pending"
                     => /\ procs'[p].pc = "done"
                        /\ procs'[p].out \in {"NotFound", "InvalidState"}
            /\ (procs[p].op = "rejectWithdrawal" /\ procs[p].pc = "rw_save" /\ procs'[p].pc = "done")
               => /\ users' = users /\ transactions' = transactions
                  /\ withdraws'[procs[p].id].status = "rejected"
                  /\ \A i \in DOMAIN withdraws \ {procs[p].id} : withdraws'[i] = withdraws[i]
       /\ \A i \in DOMAIN withdraws :
            withdraws[i].status \in {"approved", "rejected"}
            => withdraws'[i].status = withdraws[i].status]_vars

\* An approved withdrawal, whose amount was debited and entered in the ledger,
\* is stored as rejected.
C22_ApprovedThenRejected ==
    \E i \in DOMAIN withdraws, p \in Procs :
        /\ withdraws[i].status = "rejected"
        /\ procs[p].op = "approveWithdrawal" /\ procs[p].id = i
        /\ procs[p].pc = "done" /\ procs[p].out = "OK"

\* Nothing in the committed data refers to account a.
Unreferenced(a) ==
    /\ a \notin DOMAIN users
    /\ \A u \in DOMAIN users : users[u].referral_of # a
    /\ \A i \in DOMAIN requests : requests[i].user_id # a
    /\ \A k \in 1..Len(transactions) : transactions[k].user_id # a

\* C23: when the admin's deletion of account a completes, no remaining account
\* names a as its upline, and no activation request whose subject is a and no
\* ledger entry owned by a remains; every other step of a deletion, a failing
\* one included, changes nothing.
C23_DeleteCascade ==
    [][\A p \in Procs :
          (procs[p].op = "deleteUser" /\ procs[p].pc # "done" /\ procs'[p].pc # procs[p].pc)
          => IF procs[p].pc = "du_commit" /\ procs'[p].out = "OK"
             THEN Unreferenced(procs[p].l.user)'
             ELSE UNCHANGED <<users, requests, transactions>>]_vars

\* The deletion of an account completed and an activation request whose subject
\* is that account is stored.
C23_OrphanRequest ==
    \E p \in Procs, i \in DOMAIN requests :
        /\ procs[p].op = "deleteUser" /\ procs[p].pc = "done" /\ procs[p].out = "OK"
        /\ requests[i].user_id = procs[p].l.user
        /\ procs[p].l.user \notin DOMAIN users

\* The (account, total) pairs a sequence of stat documents holds.
TotalsIn(rows) == {[userId |-> rows[k].userId, total |-> rows[k].total] : k \in DOMAIN rows}

\* Job j completes a run in the step.
RunCompletes(j) ==
    /\ jobs[j].pc = "cs_insert"
    /\ jobs'[j].pc = "done"
    /\ jobs'[j].out = "OK"

\* C24: after a completed full-recompute run of a period type, the stats stored
\* for the anchor date of the window hold, for every account, the sum of its
\* direct and passive amounts minus its withdrawal amounts over the ledger
\* entries created in [start, end), one document per account, and nothing for
\* an account without an entry in the window.
C24_Reconciliation ==
    [][\A j \in JobIds :
          RunCompletes(j)
          => LET period == jobs[j].l.period
                 rows == StatsAt(stats'[jobs[j].op], period.start)
             IN /\ TotalsIn(rows) = WindowTotals(transactions', period.start, period.end)
                /\ Len(rows) = Cardinality(TotalsIn(rows))]_vars

\* A run has completed and the ledger holds, for the window of that run, totals
\* that the stored stats of its anchor date do not show.
C24_MissedEntry ==
    \E j \in JobIds :
        /\ jobs[j].pc = "done" /\ jobs[j].out = "OK"
        /\ jobs[j].op \in PeriodTypes
        /\ \A k \in JobIds : jobs[k].pc \in {"idle", "done"}
        /\ TotalsIn(StatsAt(stats[jobs[j].op], jobs[j].l.period.start))
               # WindowTotals(transactions, jobs[j].l.period.start, jobs[j].l.period.end)

\* The documents of a collection, as a set.
Rows(coll) == {coll[k] : k \in DOMAIN coll}

\* Job k completed a run of the period type and window that job j is running,
\* and both read the same ledger entries for that window.
SameRunBefore(j, k) ==
    /\ k # j
    /\ jobs[k].pc = "done" /\ jobs[k].out = "OK"
    /\ jobs[k].op = jobs[j].op
    /\ jobs[k].l.period = jobs[j].l.period
    /\ jobs[k].l.entries = jobs[j].l.entries

\* C25: running the full-recompute job a second time over the same completed
\* window, with no change of the ledger in between, leaves for the anchor date
\* of the window exactly the stat documents (account, anchor date, total) that
\* the first run left, each once.
C25_Idempotence ==
    [][\A j, k \in JobIds :
          (RunCompletes(j) /\ SameRunBefore(j, k))
          => LET start == jobs[j].l.period.start
                 second == StatsAt(stats'[jobs[j].op], start)
                 first == StatsAt(jobs[k].l.stored, start)
             IN Rows(second) = Rows(first) /\ Len(second) = Len(first)]_vars

\* Both schedulers completed the daily run of the same day over the same
\* entries, one after the other.
C25_Witness ==
    /\ \A j \in JobIds : jobs[j].pc = "done" /\ jobs[j].out = "OK" /\ jobs[j].op = "daily"
    /\ jobs["cron"].l.period = jobs["startup"].l.period
    /\ jobs["cron"].l.entries = jobs["startup"].l.entries
    /\ jobs["cron"].l.totals # {}
    /\ \A j \in JobIds :
          Rows(StatsAt(stats.daily, jobs[j].l.period.start))
              = Rows(StatsAt(jobs[j].l.stored, jobs[j].l.period.start))

\* The number of snapshots the specification keeps per period type.
Retention(type) ==
    CASE type = "daily" -> 7
      [] type = "weekly" -> 4
      [] type = "monthly" -> 12

\* C26: after each completed full-recompute run of a period type, the stored
\* stats of that type cover at most 7 distinct anchor dates for daily, 4 for
\* weekly and 12 for monthly.
C26_Retention ==
    [][\A j \in JobIds :
          RunCompletes(j)
          => Cardinality(Dates(stats'[jobs[j].op])) <= Retention(jobs[j].op)]_vars

\* A daily run has completed and the daily stats cover eight anchor dates.
C26_EightDays ==
    \E j \in JobIds :
        /\ jobs[j].pc = "done" /\ jobs[j].out = "OK" /\ jobs[j].op = "daily"
        /\ Cardinality(Dates(stats.daily)) = 8

\* C27: in every reachable state each stat collection holds at most one
\* document per (account, anchor date), also when a run is repeated for the
\* same window or two runs of the same job overlap.
C27_OnePerAccountAndDate ==
    \A type \in PeriodTypes :
        \A a, b \in DOMAIN stats[type] :
            (stats[type][a].userId = stats[type][b].userId
                /\ stats[type][a].date = stats[type][b].date) => a = b

\* Both schedulers ran the job of the same window with their steps interleaved:
\* one inserted the documents of the anchor date, the insert of the other
\* was refused.
C27_Overlap ==
    \E j, k \in JobIds :
        /\ jobs[j].pc = "done" /\ jobs[j].out = "OK"
        /\ jobs[k].pc = "done" /\ jobs[k].out = "Internal"
        /\ jobs[j].op = jobs[k].op
        /\ jobs[j].l.period = jobs[k].l.period
        /\ jobs[k].l.stored # <<>>
        /\ Len(StatsAt(stats[jobs[j].op], jobs[j].l.period.start)) = 2

\* The end of the daily, weekly or monthly period that starts at an instant.
PeriodEnd(type, start) ==
    CASE type = "daily" -> start + TicksPerDay
      [] type = "weekly" -> start + DaysPerWeek * TicksPerDay
      [] type = "monthly" -> StartOfMonth(MonthOf(start) + 1)

\* Every stat document holds the signed sum of the ledger entries of its
\* account created in the period that starts at its date.
StatsReconcile(coll, led) ==
    \A type \in PeriodTypes :
        \A k \in DOMAIN coll[type] :
            LET r == coll[type][k]
            IN r.total = SumSigned(WindowEntries(led, r.date, PeriodEnd(type, r.date)),
                                   r.userId)

\* C28: under the incremental (watermark) strategy, when a run completes with
\* no other run in progress and every ledger entry processed, each stored
\* daily, weekly and monthly total equals the signed sum of the ledger entries
\* of its account created in the window of its anchor date.
C28_IncrementalReconciliation ==
    [][\A j \in JobIds :
          (/\ jobs[j].op = "updateLeaderboard"
           /\ jobs[j].pc = "ul_process" /\ jobs'[j].pc = "done" /\ jobs'[j].out = "OK"
           /\ \A k \in JobIds \ {j} : jobs[k].pc \in {"idle", "done"}
           /\ inflight = <<>>
           /\ \A e \in DOMAIN transactions : transactions[e].createdAt <= jobs[j].l.now)
          => StatsReconcile(stats', transactions')]_vars

\* A single run has completed after midnight: the one ledger entry, created
\* on the day before, is stored under the anchor date of the day of the run.
C28_WrongBucket ==
    /\ jobs["cron"].pc = "done" /\ jobs["cron"].out = "OK"
    /\ jobs["cron"].op = "updateLeaderboard"
    /\ jobs["startup"].pc = "idle"
    /\ inflight = <<>>
    /\ Len(transactions) = 1
    /\ transactions[1].createdAt = StartInstant - 1
    /\ stats.daily = <<Stat(transactions[1].user_id, transactions[1].amount, StartInstant)>>

\* C29: a query for daily, weekly or monthly answers with at most 10 entries,
\* all of them documents of the most recent anchor date the collection held
\* when the query looked it up, in non-increasing order of total, and no
\* document of that date left out has a higher total than one returned; with
\* no document stored the answer is the empty list.
C29_TopN ==
    [][\A p \in Procs :
          /\ (procs[p].pc \in {"idle", "done"} /\ procs'[p].pc # procs[p].pc
                  /\ procs'[p].op = "leaderboard" /\ procs'[p].l.type \in PeriodTypes)
             => LET coll == stats[procs'[p].l.type]
                IN IF coll = <<>>
                   THEN procs'[p].pc = "done" /\ procs'[p].out = "OK"
                            /\ procs'[p].l.data = <<>>
                   ELSE /\ procs'[p].pc = "lb_find"
                        /\ procs'[p].l.date \in Dates(coll)
                        /\ \A k \in DOMAIN coll : coll[k].date <= procs'[p].l.date
          /\ (procs[p].pc = "lb_find" /\ procs'[p].pc = "done" /\ procs'[p].out = "OK")
             => LET data == procs'[p].l.data
                    rows == StatsAt(stats[procs[p].l.type], procs[p].l.date)
                IN /\ Len(data) <= 10
                   /\ \A k \in DOMAIN data :
                         /\ data[k].date = procs[p].l.date
                         /\ \E r \in DOMAIN rows :
                               rows[r].userId = data[k].userId /\ rows[r].total = data[k].total
                   /\ \A k \in 1..(Len(data) - 1) : data[k].total >= data[k + 1].total
                   /\ \A r \in DOMAIN rows, k \in DOMAIN data :
                         (\A m \in DOMAIN data : data[m].userId # rows[r].userId)
                             /\ rows[r].userId \in DOMAIN users
                         => rows[r].total <= data[k].total]_vars

\* A query has answered from a collection that holds twelve documents of the
\* most recent date and documents of an older date with higher totals.
C29_Witness ==
    \E p \in Procs :
        /\ procs[p].op = "leaderboard" /\ procs[p].pc = "done" /\ procs[p].out = "OK"
        /\ Len(StatsAt(stats[procs[p].l.type], procs[p].l.date)) = 12
        /\ Cardinality(Dates(stats[procs[p].l.type])) > 1
        /\ Len(procs[p].l.data) = 9

\* The cached fields of account a are those derived from the ledger.
Derived(us, led, a) ==
    /\ us[a].balance = SumSeq(led, a, {"direct"}) + SumSeq(led, a, {"passive"})
                           - SumSeq(led, a, {"withdrawal"})
    /\ us[a].direct_income = SumSeq(led, a, {"direct"})
    /\ us[a].passive_income = SumSeq(led, a, {"passive"}) - SumSeq(led, a, {"withdrawal"})

\* The call of getMe that p is completing began with no other call in progress
\* and no call has begun since.
GetMeAlone(p) ==
    /\ procs[p].op = "getMe" /\ procs[p].pc = "gm_rest"
    /\ procs'[p].pc = "done" /\ procs'[p].out = "OK"
    /\ procs[p].l.alone /\ procs[p].l.began = calls

\* C30: after a getMe call of an account completes with no concurrent
\* operation, balance equals the direct plus passive minus withdrawal amounts
\* of the account's ledger, direct_income the direct amounts and passive_income
\* the passive minus withdrawal amounts; when the fields already matched, the
\* call wrote nothing.
C30_GetMe ==
    [][\A p \in Procs :
          GetMeAlone(p)
          => /\ Derived(users', transactions', procs[p].l.user)
             /\ Derived([u \in {procs[p].l.user} |-> procs[p].l.doc], transactions,
                        procs[p].l.user)
                => ~procs'[p].wrote]_vars

\* A call of getMe, alone, has corrected the balance of an account after an
\* approved withdrawal.
C30_Corrected ==
    \E p \in Procs :
        /\ procs[p].op = "getMe" /\ procs[p].pc = "done" /\ procs[p].out = "OK"
        /\ procs[p].l.alone /\ procs[p].l.began = calls
        /\ procs[p].wrote
        /\ SumSeq(transactions, procs[p].l.user, {"withdrawal"}) > 0
        /\ users[procs[p].l.user].balance # procs[p].l.doc.balance
        /\ Derived(users, transactions, procs[p].l.user)

\* Job j is a run of the incremental job that is taking a step.
IncrementalStep(j) ==
    /\ jobs[j].op = "updateLeaderboard"
    /\ jobs'[j] # jobs[j]

\* Every entry of the sequence a occurs in the sequence b.
Within(a, b) == \A i \in DOMAIN a : \E m \in DOMAIN b : b[m] = a[i]

\* C31: the watermark of the incremental job is written only by the step that
\* follows the last increment of the fetched batch; a run that fails leaves
\* the watermark as it is, and while the watermark is as the failed run read
\* it, the next run fetches the entries of that batch again.
C31_WatermarkAfterSuccess ==
    [][/\ (jobMeta # <<>> /\ jobMeta' # jobMeta)
          => \E j \in JobIds :
                /\ IncrementalStep(j)
                /\ jobs[j].pc = "ul_process" /\ jobs[j].l.todo = <<>>
                /\ jobs'[j].pc = "done" /\ jobs'[j].out = "OK"
       /\ \A j \in JobIds :
             (IncrementalStep(j) /\ jobs'[j].out = "Internal") => jobMeta' = jobMeta
       /\ \A j, k \in JobIds :
             (/\ IncrementalStep(j) /\ jobs[j].pc = "ul_find"
              /\ jobs'[j].pc # "done" \/ jobs'[j].out = "OK"
              /\ k # j /\ jobs[k].op = "updateLeaderboard"
              /\ jobs[k].pc = "done" /\ jobs[k].out = "Internal"
              /\ jobs[j].l.lastProcessedAt = jobs[k].l.lastProcessedAt)
             => Within(jobs[k].l.batch, jobs'[j].l.batch)]_vars

\* A run failed after its increment and before the watermark was written; the
\* watermark is still the one it read and the next run has fetched the entry
\* again.
C31_Refetched ==
    \E j, k \in JobIds :
        /\ jobs[k].op = "updateLeaderboard" /\ jobs[k].pc = "done" /\ jobs[k].out = "Internal"
        /\ jobs[k].l.batch # <<>> /\ jobs[k].l.todo = <<>>
        /\ jobs[j].op = "updateLeaderboard" /\ jobs[j].pc = "ul_process"
        /\ jobMeta = <<[lastProcessedAt |-> jobs[k].l.lastProcessedAt]>>
        /\ jobs[j].l.lastProcessedAt = jobs[k].l.lastProcessedAt
        /\ jobs[j].l.batch = jobs[k].l.batch

RECURSIVE SumTotals(_, _)
\* The sum of the totals that the stat documents rows hold for account u.
SumTotals(rows, u) ==
    IF rows = <<>> THEN 0
    ELSE (IF Head(rows).userId = u THEN Head(rows).total ELSE 0) + SumTotals(Tail(rows), u)

\* No run of the incremental job is in progress, no entry is in flight and the
\* watermark has passed every ledger entry.
AllProcessed ==
    /\ \A j \in JobIds : jobs[j].pc \in {"idle", "done"}
    /\ inflight = <<>>
    /\ jobMeta # <<>>
    /\ \A e \in DOMAIN transactions : transactions[e].createdAt <= jobMeta[1].lastProcessedAt

\* C32: across any sequence of runs of the incremental job, with runs that
\* fail and are run again and entries that reach the ledger during a run, once
\* the watermark has passed every entry each period type holds for every
\* account the signed sum of the account's ledger entries: every entry was
\* added once, none skipped, none twice.
C32_EachEntryOnce ==
    AllProcessed
    => \A type \in PeriodTypes, u \in StatUsers :
          SumTotals(stats[type], u) = SumSigned(transactions, u)

\* A run failed after its increment, the next run completed, and the one
\* ledger entry is in the daily stats twice.
C32_CountedTwice ==
    /\ AllProcessed
    /\ \E j, k \in JobIds :
          /\ jobs[k].out = "Internal" /\ jobs[k].l.batch # <<>> /\ jobs[k].l.todo = <<>>
          /\ jobs[j].out = "OK" /\ jobs[j].l.batch = jobs[k].l.batch
    /\ Len(transactions) = 1
    /\ SumTotals(stats.daily, transactions[1].user_id) = 2 * transactions[1].amount

\* C33: the watermark record is created holding the epoch, and no step of any
\* run of the incremental job, overlapping runs included, writes a value
\* earlier than the one the record holds.
C33_WatermarkMonotonic ==
    [][/\ (jobMeta = <<>> /\ jobMeta' # <<>>) => jobMeta'[1].lastProcessedAt = 0
       /\ (jobMeta # <<>>)
             => /\ jobMeta' # <<>>
                /\ jobMeta'[1].lastProcessedAt >= jobMeta[1].lastProcessedAt]_vars

\* Two runs overlapped: the run that read the clock later has advanced the
\* watermark to its instant and completed; the run that read the clock earlier
\* has then completed too, and the watermark holds the earlier instant.
C33_MovedBack ==
    /\ jobMeta # <<>>
    /\ \E j, k \in JobIds :
          /\ j # k
          /\ jobs[j].op = "updateLeaderboard" /\ jobs[j].pc = "done" /\ jobs[j].out = "OK"
          /\ jobs[k].op = "updateLeaderboard" /\ jobs[k].pc = "done" /\ jobs[k].out = "OK"
          /\ jobs[j].l.batch # <<>> /\ jobs[k].l.batch # <<>>
          /\ jobs[j].l.now < jobs[k].l.now
          /\ jobMeta[1].lastProcessedAt = jobs[j].l.now

\* The collection of a period type is half replaced: a run that had totals to
\* store has removed the documents of its anchor date, which an earlier
\* completed run had stored, and has not inserted its own (it is about to, or
\* it has ended in its catch block), and the anchor date has no document.
HalfReplaced(type) ==
    \E j, k \in JobIds :
       /\ j # k
       /\ jobs[j].op = type /\ jobs[k].op = type
       /\ jobs[k].pc = "done" /\ jobs[k].out = "OK"
       /\ jobs[k].l.period.start = jobs[j].l.period.start
       /\ StatsAt(jobs[k].l.stored, jobs[k].l.period.start) # <<>>
       /\ jobs[j].l.totals # {}
       /\ \/ jobs[j].pc = "cs_insert"
          \/ jobs[j].pc = "done" /\ jobs[j].out = "Internal"
       /\ StatsAt(stats[type], jobs[j].l.period.start) = <<>>

\* C34: a full recompute replaces the documents of its anchor date atomically:
\* no step of a leaderboard query reads a collection that is half replaced, and
\* no run ends leaving its collection half replaced.
C34_AtomicReplace ==
    [][/\ \A p \in Procs :
             (/\ procs'[p] # procs[p]
              /\ procs'[p].op = "leaderboard"
              /\ procs'[p].l.type \in PeriodTypes)
             => ~HalfReplaced(procs'[p].l.type)
       /\ \A j \in JobIds :
             (/\ jobs'[j] # jobs[j]
              /\ jobs'[j].pc = "done"
              /\ jobs'[j].op \in PeriodTypes)
             => ~HalfReplaced(jobs[j].op)']_vars

\* A run has ended in its catch block after its deleteMany: the documents an
\* earlier run stored for the anchor date are gone and nothing replaced them.
C34_LeftDeleted ==
    \E j \in JobIds :
       /\ jobs[j].pc = "done" /\ jobs[j].out = "Internal"
       /\ jobs[j].op \in PeriodTypes
       /\ HalfReplaced(jobs[j].op)

\* A step of the approveRequest call of connection p.
ApproveRequestStep(p) ==
    /\ procs'[p].pc # procs[p].pc
    /\ procs'[p].op = "approveRequest"

\* C35: a step of approveRequest changes no account other than the subject of
\* the request, its sender and the sender's referrer, adds and removes no
\* account, leaves every existing ledger entry as it was and in place, and
\* appends ledger entries only for the sender and the sender's referrer.
C35_ApprovalFrame ==
    [][\A p \in Procs :
          (ApproveRequestStep(p) /\ (users' # users \/ transactions' # transactions))
          => LET request == requests[procs[p].id]
                 sponsor == request.sender_id
                 upline == users[sponsor].referral_of
             IN /\ DOMAIN users' = DOMAIN users
                /\ \A u \in DOMAIN users :
                      users'[u] # users[u] => u \in {request.user_id, sponsor, upline}
                /\ Len(transactions') >= Len(transactions)
                /\ \A e \in DOMAIN transactions : transactions'[e] = transactions[e]
                /\ \A e \in DOMAIN transactions' \ DOMAIN transactions :
                      transactions'[e].user_id \in {sponsor, upline} \ {Null}]_vars

\* An approval has committed with both commissions: the subject is active, the
\* sender and the sender's referrer hold more than before and the ledger has
\* gained a direct and a passive entry.
C35_Witness ==
    \E p \in Procs :
       /\ procs[p].op = "approveRequest" /\ procs[p].pc = "done" /\ procs[p].out = "OK"
       /\ Len(transactions) = Len(InitTransactions) + 2
       /\ transactions[Len(transactions) - 1].type = "direct"
       /\ transactions[Len(transactions)].type = "passive"
       /\ LET request == requests[procs[p].id]
          IN /\ users[request.user_id].status = "active"
             /\ users[request.sender_id].balance > InitUsers[request.sender_id].balance
             /\ transactions[Len(transactions)].user_id = users[request.sender_id].referral_of

\* The reset job and the cron run of the recompute job of a period type have
\* both completed and no run of a recompute job is in progress.
BothCompleted(type) ==
    /\ jobs[ResetJob].op = type /\ jobs[ResetJob].pc = "done"
    /\ jobs["cron"].op = type /\ jobs["cron"].pc = "done" /\ jobs["cron"].out = "OK"
    /\ \A j \in JobIds : jobs[j].pc \in {"idle", "done"}

\* C36: once the reset job and the recompute job that fire at the same
\* midnight have both completed, in whichever order, the collection of the
\* period type holds a document at the anchor date of the completed period for
\* every account with ledger entries in its window.
C36_SnapshotSurvivesReset ==
    \A type \in PeriodTypes :
       BothCompleted(type)
       => LET period == jobs["cron"].l.period
          IN \A u \in Owners(WindowEntries(transactions, period.start, period.end)) :
                \E r \in DOMAIN stats[type] :
                   stats[type][r].userId = u /\ stats[type][r].date = period.start

\* The recompute job stored yesterday's documents, the reset job then emptied
\* the collection, and both have completed.
C36_Wiped ==
    /\ BothCompleted("daily")
    /\ jobs[ResetJob].out = "OK"
    /\ jobs["cron"].l.totals # {}
    /\ StatsAt(jobs["cron"].l.stored, jobs["cron"].l.period.start) # <<>>
    /\ stats.daily = <<>>

TierOrder ==
    \A u \in DOMAIN users :
       (/\ users[u].plan # Null
        /\ users[u].referral_of # Null
        /\ users[u].referral_of \in DOMAIN users
        /\ users[users[u].referral_of].plan # Null)
       => planRank[users[u].plan] <= planRank[users[users[u].referral_of].plan]

\* C38: plan tiers are ordered along the referral chain in every reachable
\* state, and no step lowers the plan tier of an account that has a plan.
C38_TiersOrdered ==
    /\ []TierOrder
    /\ [][\A u \in DOMAIN users :
             (u \in DOMAIN users' /\ users[u].plan # Null)
             => /\ users'[u].plan # Null
                /\ planRank[users'[u].plan] >= planRank[users[u].plan]]_vars

\* Both requests for U are approved and U, activated with masteric by the
\* first approval, holds knowic.
C38_Lowered ==
    /\ \E i \in DOMAIN requests :
          requests[i].user_id = "U" /\ requests[i].plan = "masteric" /\ requests[i].status = "approved"
    /\ \E i \in DOMAIN requests :
          requests[i].user_id = "U" /\ requests[i].plan = "knowic" /\ requests[i].status = "approved"
    /\ users["U"].status = "active"
    /\ users["U"].plan = "knowic"

\* The approved activation requests of account u.
ApprovedRequests(u) ==
    {i \in DOMAIN requests : requests[i].user_id = u /\ requests[i].status = "approved"}

\* C39: each account is activated at most once: at most one activation
\* request per subject is ever approved, and the commit of an approveRequest
\* for a subject that is already active changes no account and appends no
\* ledger entry.
C39_ActivatedOnce ==
    /\ [](\A u \in UserIds : Cardinality(ApprovedRequests(u)) <= 1)
    /\ [][\A p \in Procs :
             (/\ ApproveRequestStep(p)
              /\ procs[p].pc = "ar_commit"
              /\ users[requests[procs[p].id].user_id].status = "active")
             => users' = users /\ transactions' = transactions]_vars

\* U has been activated twice: both requests are approved and S holds the
\* direct commissions of both plans, each with its ledger entry.
C39_PaidTwice ==
    /\ Cardinality(ApprovedRequests("U")) = 2
    /\ users["S"].direct_income = InitUsers["S"].direct_income + mastericDirect + knowicDirect
    /\ \E e \in DOMAIN transactions : e > Len(InitTransactions) /\ transactions[e] = Tx("S", "direct", mastericDirect)
    /\ \E e \in DOMAIN transactions : e > Len(InitTransactions) /\ transactions[e] = Tx("S", "direct", knowicDirect)

\* A call of getMe for account a and an approveRequest have both completed and
\* no call is in progress.
BothDone(a) ==
    /\ \A p \in Procs : procs[p].pc \in {"idle", "done"}
    /\ \E p, q \in Procs :
          /\ procs[p].op = "getMe" /\ procs[p].out = "OK" /\ procs[p].l.user = a
          /\ procs[q].op = "approveRequest" /\ procs[q].out = "OK"

\* C40: when a call of getMe for an account and an approval that credits the
\* account have both completed, however they interleaved, the account's
\* balance is the signed sum of its ledger entries.
C40_BalanceAfterGetMe ==
    \A a \in MeIds :
       (a \in DOMAIN users /\ BothDone(a))
       => users[a].balance = CalculatedBalance(EntriesOf(transactions, a), a)

\* getMe read the ledger of G, the approval then committed the passive
\* commission of G, and getMe saved the balance it had computed: both have
\* completed and the balance is the ledger sum less that commission.
C40_CreditOverwritten ==
    /\ BothDone("G")
    /\ \E p \in Procs : procs[p].op = "getMe" /\ procs[p].l.user = "G" /\ procs[p].wrote
    /\ transactions[Len(transactions)] = Tx("G", "passive", mastericPassive)
    /\ users["G"].balance
          = CalculatedBalance(EntriesOf(transactions, "G"), "G") - mastericPassive

====
